---- MODULE Spec2Model ----
(***************************************************************************)
(* A model of onion-core: the component container, the dependency-         *)
(* injection factory and its scoped use by the Application, the event      *)
(* dispatcher on the asyncio loop, reactive properties, and the            *)
(* declaration processor.                                                  *)
(*                                                                         *)
(* Specifications share the module, one per part of the program:           *)
(*   Spec          the factory scope of an Application (add / initialize)  *)
(*   SpecContainer ComponentContainer.add                                  *)
(*   SpecEvents    DefaultEventDispatcher on the asyncio loop              *)
(*   SpecProperty  PropertyImpl and the listeners of its value             *)
(*   SpecDecl      DeclarationProcessor and the build it drives            *)
(*   SpecReactive  ComponentSchema validation and the object initializer   *)
(*   SpecInject    injection of list, Union and Optional requests          *)
(*   SpecOutput    OutputImpl.send and its destinations on the loop        *)
(*   SpecView      a PropertyView over the property                        *)
(*   SpecApp       Application.run and stop around the factory scopes      *)
(*   SpecSource    EventSourceImpl as its caller sees it                   *)
(*   SpecDrain     Application.run() and listeners that dispatch           *)
(*   SpecOrder     the build of components that refer to each other        *)
(*   SpecRun       Application.run and stop with the components' coroutines*)
(*   SpecStop      the same under fair scheduling of the loop              *)
(***************************************************************************)
EXTENDS Integers, Sequences, FiniteSets, TLC

VARIABLES
    \* ---- Application / ComponentContainer / ComponentFactory
    container,   \* ComponentContainer._components, in insertion order
    scope,       \* "closed" | "open": a `with application.factory()` block
    toInit,      \* ComponentFactory._to_initialize
    typeIdx,     \* ComponentFactory._component_of_types
    inst,        \* every instance ever allocated by add(), indexed by its id
    ctorLog,     \* history: constructor calls and container registrations
    lastExit,    \* how the last scope exit went
    scopeBase,   \* history: the container when the current scope was entered
    \* ---- ComponentContainer on its own
    cAddLog,     \* history: every add() call made on the container and its result
    cPrev,       \* history: the container before the last add() call
    \* ---- the asyncio loop, DefaultEventDispatcher, EventSourceImpl, PropertyImpl
    control,     \* "main": the program's coroutine is running; "loop": it is suspended
    ready,       \* the loop's queue of ready callbacks (call_soon is FIFO)
    tasks,       \* every task create_task() made, indexed by its id
    tracked,     \* DefaultEventDispatcher._tasks
    runs,        \* every call of DefaultEventDispatcher.run(), indexed by its number
    listeners,   \* EventSourceImpl._listeners of the property
    propValue,   \* PropertyImpl._value
    events,      \* history: every event handed to dispatch(), with its listener list
    invoked,     \* history: every listener invocation, in order
    writes,      \* history: every assignment to the property's value
    \* ---- DeclarationSchema and DeclarationProcessor
    decl,        \* the DeclarationSchema handed to the processor (never mutated)
    proc,        \* the DeclarationProcessor: its deep copy of the schema and its registry
    schemaLog,   \* history: every ComponentSchema(...) construction and its outcome
    addLog,      \* history: every factory.add() call that handed properties over
    \* ---- OutputImpl
    destinations, \* OutputImpl._destinations
    sends,       \* every call of OutputImpl.send(), indexed by its number
    \* ---- PropertyView
    view,        \* the PropertyView made over the property, if any
    viewLog,     \* history: every operation the program made through the view
    \* ---- Application
    app,         \* where Application.run() stands; history: the calls of setup(),
                 \* run() and stop() it made, and the initialize() passes
    \* ---- EventSourceImpl seen from its caller, and listeners that dispatch
    srcOp,       \* history: the last call made on the event source and its outcome
    chain        \* the listeners of a chain of event sources, one per source

fvars == <<container, scope, toInit, typeIdx, inst, ctorLog, lastExit, scopeBase>>
cvars == <<cAddLog, cPrev>>

evars == <<control, ready, tasks, tracked, runs, listeners, propValue, events, invoked, writes>>

dvars == <<decl, proc>>

svars == <<schemaLog, addLog>>

ovars == <<destinations, sends, view, viewLog>>

avars == <<app>>

lvars == <<srcOp, chain>>

otherThanFactory == <<cvars, evars, dvars, svars, ovars, avars, lvars>>
otherThanEvents == <<fvars, cvars, dvars, svars, ovars, avars, lvars>>
otherThanContainer == <<evars, dvars, svars, ovars, avars, lvars>>
otherThanBuild == <<cvars, evars, svars, ovars, avars, lvars>>
otherThanOutput == <<fvars, cvars, dvars, svars, avars, lvars>>

\* ------------------------------------------------------------------ bounds
MaxAdd == 3        \* add() calls over the whole run of the factory specification
MaxCAdd == 4       \* add() calls on the container in SpecContainer
MaxEvents == 2     \* events dispatched in SpecEvents
MaxListeners == 2  \* length of the property's listener list
MaxRuns == 1       \* calls of DefaultEventDispatcher.run()
MaxTasks == 2      \* tasks created by dispatch()
MaxSchemas == 3    \* component schemas of a declaration, nested ones included
MaxMade == 2       \* ComponentSchema(...) constructions in SpecReactive
MaxDirect == 1     \* scopes in which the program calls add() itself
MaxDests == 3      \* length of the output's destination list
MaxSends == 1      \* calls of OutputImpl.send()
MaxViewOps == 3    \* operations made through the PropertyView
MaxBuilds == 2     \* factory scopes of the Application that were left
MaxAppCalls == 3   \* calls of setup(), run() and stop() made by the Application
MaxChain == 4      \* event sources in a chain of listeners that dispatch

\* ------------------------------------------------------------ small helpers
Last(s) == s[Len(s)]

Range(s) == {s[i] : i \in 1..Len(s)}

IndexOf(s, x) == IF \E i \in 1..Len(s) : s[i] = x
                 THEN CHOOSE i \in 1..Len(s) : s[i] = x /\ \A j \in 1..(i-1) : s[j] # x
                 ELSE 0

Count(s, x) == Cardinality({i \in 1..Len(s) : s[i] = x})

\* ------------------------------------------------- the component container
\* Component names. No name has a meaning of its own, so the k-th distinct name
\* a run uses is NameSeq[k]; a run may also reuse any name it used before.
NameSeq == <<"n1", "n2", "n3", "n4", "n5", "n6">>

Names == {NameSeq[i] : i \in 1..Len(NameSeq)}

ContainerNames(c) == {c[i].name : i \in 1..Len(c)}

ContainerGet(c, name) == (CHOOSE i \in 1..Len(c) : c[i].name = name)

\* ComponentContainer.add: KeyError when the name is present, else insert.
ContainerAddOverwrite(c, name, id) ==
    IF name \in ContainerNames(c)
    THEN [err |-> "none",
          c |-> [i \in 1..Len(c) |-> IF c[i].name = name THEN [name |-> name, id |-> id] ELSE c[i]]]
    ELSE [err |-> "none", c |-> Append(c, [name |-> name, id |-> id])]

ContainerAdd(c, name, id) ==
    IF name \in ContainerNames(c)
    THEN [err |-> "KeyError", c |-> c]
    ELSE [err |-> "none", c |-> Append(c, [name |-> name, id |-> id])]

\* ------------------------------------------------------------- the classes
\* Static objects handed to the factory by Application.factory, in order.
StaticApp == -1
StaticContainer == -2
StaticDispatcher == -3
StaticLoop == -4
Statics == <<StaticApp, StaticContainer, StaticDispatcher, StaticLoop>>

\* Component classes of the model: CC has no injected parameter, CB (a Base)
\* injects a CC, CA injects a Base, CDisp injects the dispatcher (as the test
\* application's ThresholdChecker does), CCont injects the container.
Classes == {"CA", "CB", "CC", "CDisp", "CCont"}

\* Component classes run by the Application: CRun has setup(), run() and
\* stop(); CRaise has them too and its constructor raises; CC has none.
AppClasses == {"CC", "CRun", "CRaise"}

\* Component classes of an application that is run and stopped: CRun, and
\* CSetup, which has setup() only.
RunClasses == {"CRun", "CSetup"}

\* Component classes that declare reactive fields: those of the test
\* application, and variants of its Thermometer whose one property differs in
\* element type and class-level default.
ReactiveClasses == {"Thermometer", "OptionalThermometer", "DefaultThermometer",
                    "OptionalDefaultThermometer", "Display", "ThresholdChecker", "Actuator"}

\* Component classes whose injected parameters are typed by a collection or a
\* union, as the test application's Accumulator is, or depend on each other:
\* CE injects a CDisp, CList a list[CC], COpt an Optional[CC], CUnion a
\* Union[CC, Base], CListUnion a list[Union[CC, Base]], CX a CY and CY a CX.
InjectClasses == {"CC", "CB", "CDisp", "CE", "CList", "COpt", "CUnion", "CListUnion",
                  "CX", "CY"}

Types == Classes \cup ReactiveClasses \cup InjectClasses \cup AppClasses \cup RunClasses \cup
         {"object", "Base", "Application", "ComponentContainer",
          "DefaultEventDispatcher", "EventDispatcher", "AbstractEventLoop", "NoneType"}

\* type.mro() of each class, as a sequence.
Mro(t) ==
    CASE t = "CB" -> <<"CB", "Base", "object">>
      [] t = "DefaultEventDispatcher" -> <<"DefaultEventDispatcher", "EventDispatcher", "object">>
      [] OTHER -> <<t, "object">>

StaticType(s) ==
    CASE s = StaticApp -> "Application"
      [] s = StaticContainer -> "ComponentContainer"
      [] s = StaticDispatcher -> "DefaultEventDispatcher"
      [] s = StaticLoop -> "AbstractEventLoop"

\* The annotation of a parameter: a class, Union[...] of annotations, or
\* list[...] of one. get_args() of Optional[T] is (T, NoneType).
\* t is the annotation as it is written, args what get_args() returns.
Plain(t) == [kind |-> "plain", t |-> t, args |-> <<>>]

RECURSIVE JoinNames(_)
JoinNames(members) ==
    IF Len(members) = 1 THEN members[1].t
    ELSE members[1].t \o ", " \o JoinNames(Tail(members))

UnionOf(members) ==
    [kind |-> "union", t |-> "Union[" \o JoinNames(members) \o "]", args |-> members]

ListOf(elem) == [kind |-> "list", t |-> "list[" \o elem.t \o "]", args |-> <<elem>>]

OptionalOf(t) == UnionOf(<<Plain(t), Plain("NoneType")>>)

\* Parameters of __init__ whose default is Inject(), in signature order.

InjectParams(cls) ==
    CASE cls = "CA" -> <<[name |-> "b", type |-> Plain("Base")]>>
      [] cls = "CB" -> <<[name |-> "c", type |-> Plain("CC")]>>
      [] cls = "CDisp" -> <<[name |-> "dispatcher", type |-> Plain("EventDispatcher")]>>
      [] cls = "ThresholdChecker" ->
            <<[name |-> "dispatcher", type |-> Plain("EventDispatcher")]>>
      [] cls = "CCont" -> <<[name |-> "container", type |-> Plain("ComponentContainer")]>>
      [] cls = "CE" -> <<[name |-> "d", type |-> Plain("CDisp")]>>
      [] cls = "CList" -> <<[name |-> "items", type |-> ListOf(Plain("CC"))]>>
      [] cls = "COpt" -> <<[name |-> "c", type |-> OptionalOf("CC")]>>
      [] cls = "CUnion" -> <<[name |-> "x", type |-> UnionOf(<<Plain("CC"), Plain("Base")>>)]>>
      [] cls = "CListUnion" ->
            <<[name |-> "xs", type |-> ListOf(UnionOf(<<Plain("CC"), Plain("Base")>>))]>>
      [] cls = "CX" -> <<[name |-> "y", type |-> Plain("CY")]>>
      [] cls = "CY" -> <<[name |-> "x", type |-> Plain("CX")]>>
      [] OTHER -> <<>>

ParamNames == {"b", "c", "dispatcher", "container", "d", "items", "x", "xs", "y"}

\* A keyword argument: absent, or a value (one instance, or a list of them).
Absent == [set |-> FALSE, plural |-> FALSE, v |-> <<>>]
One(id) == [set |-> TRUE, plural |-> FALSE, v |-> <<id>>]
NoKwargs == [p \in ParamNames |-> Absent]

\* hasattr(x, "name"): components carry a name, the static objects do not.
HasName(id) == id > 0

\* bool(x) of an injected value: a ComponentContainer is a Mapping with
\* __len__, so it is falsy while it is empty; every other object is truthy.
Truthy(val, clen) ==
    IF ~val.set THEN FALSE
    ELSE IF val.plural THEN Len(val.v) > 0
    ELSE ~(val.v[1] = StaticContainer /\ clen = 0)

\* ------------------------------------------------- reflection on a class
\* A FieldReflection of a reactive field: its name, the origin of its
\* annotation (Property or EventSource), the element type args[0] with
\* whether it is Optional, and the class-level default: "Ellipsis" when the
\* class has no attribute of that name, "Input" for the marker Input(),
\* "value" for any other default.
FieldReflection(name, origin, elem, optional, default) ==
    [name |-> name, origin |-> origin, elem |-> elem, optional |-> optional,
     default |-> default]

\* ClassReflection.props: the annotations whose origin is EventSource or
\* Property, in declaration order.
ReflectionProps(cls) ==
    CASE cls = "Thermometer" ->
            <<FieldReflection("temperature", "Property", "float", FALSE, "Ellipsis")>>
      [] cls = "OptionalThermometer" ->
            <<FieldReflection("temperature", "Property", "float", TRUE, "Ellipsis")>>
      [] cls = "DefaultThermometer" ->
            <<FieldReflection("temperature", "Property", "float", FALSE, "value")>>
      [] cls = "OptionalDefaultThermometer" ->
            <<FieldReflection("temperature", "Property", "float", TRUE, "value")>>
      [] cls = "Display" ->
            <<FieldReflection("temperature", "Property", "str", FALSE, "Ellipsis")>>
      [] cls = "ThresholdChecker" ->
            <<FieldReflection("temperature", "Property", "float", FALSE, "Input"),
              FieldReflection("threshold", "Property", "float", FALSE, "Ellipsis"),
              FieldReflection("changed", "EventSource", "bool", FALSE, "Ellipsis")>>
      [] cls = "Actuator" ->
            <<FieldReflection("event", "EventSource", "bool", FALSE, "Input")>>
      [] OTHER -> <<>>

\* ClassReflection._find_fields_for_generic
FindFieldsForGeneric(cls, targets) ==
    SelectSeq(ReflectionProps(cls), LAMBDA f : f.origin \in targets)

\* ClassReflection.properties
ReflectionProperties(cls) == FindFieldsForGeneric(cls, {"Property"})

\* ClassReflection.events
ReflectionEvents(cls) == FindFieldsForGeneric(cls, {"EventSource"})

\* ClassReflection.get_prop: the reflected field of that name, or None.
NoProp == FieldReflection("", "object", "object", FALSE, "Ellipsis")

GetProp(cls, name) ==
    IF \E i \in 1..Len(ReflectionProps(cls)) : ReflectionProps(cls)[i].name = name
    THEN ReflectionProps(cls)[CHOOSE i \in 1..Len(ReflectionProps(cls)) :
                                 ReflectionProps(cls)[i].name = name]
    ELSE NoProp

\* isinstance(field.default, Input), as it would be if no default were ever
\* taken for the marker.
IsInputNever(default) == FALSE

\* isinstance(field.default, Input): the class-level default is the marker.
IsInput(default) == default = "Input"

\* _ObjectInitializer.need_initializing: hasattr(type_, "__annotations__")
NeedInitializing(cls) == cls \in ReactiveClasses

\* ------------------------------------------- values handed to a component
\* A value of args, kwargs or props: a literal, a Reference ($ref, $prop), a
\* nested ComponentSchema (by the identity of the schema object) or, once a
\* reference is resolved, a component instance.
Literal == [t |-> "lit", ref |-> "", prop |-> "", id |-> 0]
ReferenceOf(ref) == [t |-> "ref", ref |-> ref, prop |-> "", id |-> 0]
ReferenceTo(ref, prop) == [t |-> "ref", ref |-> ref, prop |-> prop, id |-> 0]
NestedSchema(id) == [t |-> "schema", ref |-> "", prop |-> "", id |-> id]
InstanceValue(id) == [t |-> "instance", ref |-> "", prop |-> "", id |-> id]

\* One of args, kwargs, props. The entries sit in the field itself ("direct"),
\* or the field has a single entry, a list or a dict, that holds them.
\* keys[i] is the key of the i-th entry (of a list: its place).
EmptyField == [wrap |-> "direct", vals |-> <<>>, keys |-> <<>>]
NoFields == [args |-> EmptyField, kwargs |-> EmptyField, props |-> EmptyField]

\* ------------------------------------------------------------- the factory
\* A _save_component_type that lists the instance under its own class only.
SaveComponentTypeExact(idx, type, id) ==
    [t \in Types |-> IF t = type THEN Append(idx[t], id) ELSE idx[t]]

\* ComponentFactory._save_component_type
SaveComponentType(idx, type, id) ==
    [t \in Types |-> IF t \in Range(Mro(type)) THEN Append(idx[t], id) ELSE idx[t]]

RECURSIVE SaveStatics(_, _)
SaveStatics(idx, i) ==
    IF i > Len(Statics) THEN idx
    ELSE SaveStatics(SaveComponentType(idx, StaticType(Statics[i]), Statics[i]), i + 1)

\* ComponentFactory.__init__ with static = [app, container, dispatcher, loop]
NewTypeIdx == SaveStatics([t \in Types |-> <<>>], 1)

\* ComponentFactory._get
Get(idx, t, singular) ==
    IF Len(idx[t]) = 0 THEN [err |-> "KeyError", val |-> Absent]
    ELSE IF singular
         THEN IF Len(idx[t]) > 1
              THEN [err |-> "ValueError", val |-> [set |-> TRUE, plural |-> TRUE, v |-> idx[t]]]
              ELSE [err |-> "none", val |-> One(idx[t][1])]
         ELSE [err |-> "none", val |-> [set |-> TRUE, plural |-> TRUE, v |-> idx[t]]]

\* _get_dependency, line 161: `arg is None`, for arg among get_args().
ArgIsNone(arg) == arg.t = "None"

\* _get_dependency, lines 158-164: the union's members that are not None,
\* and whether one of them is.
UnionTypes(texpr) == SelectSeq(texpr.args, LAMBDA arg : ~ArgIsNone(arg))

UnionOptional(texpr) == \E i \in 1..Len(texpr.args) : ArgIsNone(texpr.args[i])

\* ComponentFactory._get_dependency. A result without error and without a
\* value is None.
RECURSIVE GetDependency(_, _, _)
RECURSIVE FirstOf(_, _, _, _)
RECURSIVE CollectFrom(_, _, _, _, _)

\* lines 167-177: the first member that has an instance.
FirstOfNext(r, idx, types, i, optional) ==
    IF r.err = "KeyError" THEN FirstOf(idx, types, i + 1, optional) ELSE r

FirstOf(idx, types, i, optional) ==
    IF i > Len(types)
    THEN IF optional THEN [err |-> "none", val |-> Absent]
         ELSE [err |-> "KeyError", val |-> Absent]
    ELSE FirstOfNext(GetDependency(idx, types[i], TRUE), idx, types, i, optional)

\* lines 179-188: what _get_dependency(type_) returns for each member, those
\* without an instance skipped.
CollectNext(r, idx, types, i, optional, acc) ==
    IF r.err = "KeyError" THEN CollectFrom(idx, types, i + 1, optional, acc)
    ELSE IF r.err # "none" THEN r
    ELSE CollectFrom(idx, types, i + 1, optional, acc \o r.val.v)

CollectFrom(idx, types, i, optional, acc) ==
    IF i > Len(types)
    THEN IF acc = <<>> /\ ~optional THEN [err |-> "KeyError", val |-> Absent]
         ELSE [err |-> "none", val |-> [set |-> TRUE, plural |-> TRUE, v |-> acc]]
    ELSE CollectNext(GetDependency(idx, types[i], TRUE), idx, types, i, optional, acc)

GetDependency(idx, texpr, singular) ==
    IF texpr.kind = "plain" THEN Get(idx, texpr.t, singular)
    ELSE IF texpr.kind = "union"
    THEN IF singular
         THEN FirstOf(idx, UnionTypes(texpr), 1, UnionOptional(texpr))
         ELSE CollectFrom(idx, UnionTypes(texpr), 1, UnionOptional(texpr), <<>>)
    ELSE GetDependency(idx, texpr.args[1], FALSE)

\* ComponentFactory._inject_dependencies: the loop over the parameters from
\* the i-th one on. kwargs is updated in place; deps collects the instances.
RECURSIVE InjectFrom(_, _, _, _, _, _)
InjectFrom(params, i, kwargs, deps, idx, clen) ==
    IF i > Len(params) THEN [err |-> "none", kwargs |-> kwargs, deps |-> deps,
                             type |-> "object", candidates |-> <<>>]
    ELSE LET p == params[i] IN
         IF kwargs[p.name].set THEN InjectFrom(params, i + 1, kwargs, deps, idx, clen)
         ELSE LET r == GetDependency(idx, p.type, TRUE) IN
              IF r.err = "KeyError"
              THEN [err |-> "DependencyNotFound", kwargs |-> kwargs, deps |-> deps,
                    type |-> p.type.t, candidates |-> <<>>]
              ELSE IF r.err = "ValueError"
              THEN [err |-> "AmbiguousDependency", kwargs |-> kwargs, deps |-> deps,
                    type |-> p.type.t, candidates |-> r.val.v]
              ELSE IF Truthy(r.val, clen)
              THEN InjectFrom(params, i + 1, [kwargs EXCEPT ![p.name] = r.val],
                              deps \o r.val.v, idx, clen)
              ELSE InjectFrom(params, i + 1, kwargs, deps, idx, clen)

InjectDependencies(cls, kwargs, idx, clen) ==
    InjectFrom(InjectParams(cls), 1, kwargs, <<>>, idx, clen)

\* The names of the dependencies that carry one (initialize, line 273).
RECURSIVE DepNames(_, _)
DepNames(deps, instances) ==
    IF deps = <<>> THEN <<>>
    ELSE IF HasName(Head(deps))
         THEN <<instances[Head(deps)].name>> \o DepNames(Tail(deps), instances)
         ELSE DepNames(Tail(deps), instances)

\* ComponentFactory.initialize, lines 264-279: resolve the injected parameters
\* of every pending component, in add order. kw maps an instance to its kwargs
\* dict, defs is `definitions`, hasDeps is `has_dependencies`, order is
\* `to_initialize`.
NoDef == [set |-> FALSE, deps |-> <<>>, id |-> 0]

\* line 270: `if dependencies:`, true of every non-empty list, whether the
\* instances in it are named components or anonymous static ones.
HasDependenciesAlways(deps) == TRUE

HasDependencies(deps) == Len(deps) > 0

RECURSIVE ResolveAll(_, _, _, _, _, _)
ResolveAll(pending, i, idx, clen, instances, acc) ==
    IF i > Len(pending) THEN acc
    ELSE LET id == pending[i]
             name == instances[id].name
             r == InjectDependencies(instances[id].cls, instances[id].kwargs, idx, clen)
             kw1 == [acc.kw EXCEPT ![id] = r.kwargs]
         IN IF r.err # "none"
            THEN [acc EXCEPT !.err = r.err, !.errName = name, !.errType = r.type,
                             !.candidates = r.candidates, !.kw = kw1]
            ELSE IF HasDependencies(r.deps)
            THEN ResolveAll(pending, i + 1, idx, clen, instances,
                    [acc EXCEPT !.kw = kw1,
                                !.hasDeps = Append(@, name),
                                !.defs = [@ EXCEPT ![name] =
                                    [set |-> TRUE, deps |-> DepNames(r.deps, instances), id |-> id]]])
            ELSE ResolveAll(pending, i + 1, idx, clen, instances,
                    [acc EXCEPT !.kw = kw1, !.order = Append(@, id)])

\* The membership test of visit(), line 284: `if name in visited`. `name` is
\* the variable of the enclosing loops of initialize(), not visit's parameter.
VisitKey(compName, name) == name

\* A chain of visit() calls that passes through no name twice is at most as
\* long as there are names, so a deeper one goes round a cycle and would never
\* bottom out; the traversal is cut there with the outcome "RecursionError".
RecursionLimit == MaxAdd + 1

\* lines 284-287: the early return on a visited key.
VisitedNever(key, visited) == FALSE

Visited(key, visited) == key \in visited

\* line 295: to_initialize.append(values), reached when no call below failed.
VisitDone(st, id) ==
    IF st.err # "none" THEN st ELSE [st EXCEPT !.order = Append(@, id)]

\* initialize.visit, lines 283-295. st = [visited, order, err]; depth is the
\* number of visit() frames on the stack.
RECURSIVE Visit(_, _, _, _, _)
RECURSIVE VisitEach(_, _, _, _, _, _)
Visit(compName, name, st, defs, depth) ==
    IF st.err # "none" THEN st
    ELSE IF depth > RecursionLimit THEN [st EXCEPT !.err = "RecursionError"]
    ELSE IF Visited(VisitKey(compName, name), st.visited) THEN st
    ELSE IF ~(compName \in DOMAIN defs /\ defs[compName].set)
         THEN [st EXCEPT !.visited = @ \cup {VisitKey(compName, name)}]
         ELSE VisitDone(VisitEach(defs[compName].deps, 1, name,
                                  [st EXCEPT !.visited = @ \cup {VisitKey(compName, name)}],
                                  defs, depth + 1),
                        defs[compName].id)

VisitEach(deps, i, name, st, defs, depth) ==
    IF i > Len(deps) THEN st
    ELSE VisitEach(deps, i + 1, name, Visit(deps[i], name, st, defs, depth), defs, depth)

\* lines 297-298: for name in has_dependencies: visit(name)
RECURSIVE VisitAll(_, _, _, _)
VisitAll(hasDeps, i, st, defs) ==
    IF i > Len(hasDeps) THEN st
    ELSE VisitAll(hasDeps, i + 1, Visit(hasDeps[i], hasDeps[i], st, defs, 1), defs)

\* instance.__init__(*args, **kwargs) raises.
ConstructorRaises(cls) == cls = "CRaise"

\* A loop that registers the instance before it runs its constructor.
RECURSIVE ConstructRegisteredFirst(_, _, _, _)
ConstructRegisteredFirst(order, i, instances, acc) ==
    IF i > Len(order) THEN acc
    ELSE LET id == order[i]
             a == ContainerAdd(acc.c, instances[id].name, id)
             log1 == Append(Append(acc.log, [op |-> "reg", id |-> id,
                                             args |-> <<>>, kwargs |-> <<>>]),
                            [op |-> "ctor", id |-> id,
                             args |-> instances[id].fields.args.vals,
                             kwargs |-> instances[id].fields.kwargs.vals])
         IN IF a.err # "none"
            THEN [acc EXCEPT !.err = "DuplicateName", !.errName = instances[id].name]
            ELSE IF ConstructorRaises(instances[id].cls)
            THEN [acc EXCEPT !.err = "ConstructorError", !.errName = instances[id].name,
                             !.c = a.c, !.log = log1]
            ELSE ConstructRegisteredFirst(order, i + 1, instances,
                                          [acc EXCEPT !.c = a.c, !.log = log1])

\* A loop that runs every constructor and registers the instances afterwards.
RECURSIVE ConstructAllThenRegister(_, _, _, _)
ConstructAllThenRegister(order, i, instances, acc) ==
    IF i > Len(order) THEN acc
    ELSE LET id == order[i]
             rest == ConstructAllThenRegister(order, i + 1, instances,
                        [acc EXCEPT !.log = Append(@, [op |-> "ctor", id |-> id,
                                     args |-> instances[id].fields.args.vals,
                                     kwargs |-> instances[id].fields.kwargs.vals])])
         IN [rest EXCEPT !.c = ContainerAdd(@, instances[id].name, id).c,
                         !.log = Append(@, [op |-> "reg", id |-> id,
                                            args |-> <<>>, kwargs |-> <<>>])]

\* lines 300-304: run each constructor, instance.__init__(*args, **kwargs),
\* then register the instance. A constructor that raises ends the loop.
RECURSIVE Construct(_, _, _, _)
Construct(order, i, instances, acc) ==
    IF i > Len(order) THEN acc
    ELSE LET id == order[i]
             log1 == Append(acc.log, [op |-> "ctor", id |-> id,
                                      args |-> instances[id].fields.args.vals,
                                      kwargs |-> instances[id].fields.kwargs.vals])
             a == ContainerAdd(acc.c, instances[id].name, id)
         IN IF ConstructorRaises(instances[id].cls)
            THEN [acc EXCEPT !.err = "ConstructorError", !.errName = instances[id].name,
                             !.log = log1]
            ELSE IF a.err # "none"
            THEN [acc EXCEPT !.err = "DuplicateName", !.errName = instances[id].name, !.log = log1]
            ELSE Construct(order, i + 1, instances,
                    [acc EXCEPT !.c = a.c, !.log = Append(log1, [op |-> "reg", id |-> id,
                                                           args |-> <<>>, kwargs |-> <<>>])])

\* lines 297-304: order the components with dependencies, then construct.
OrderAndConstruct(r1, st, instances) ==
    IF st.err # "none" THEN [r1 EXCEPT !.err = st.err]
    ELSE Construct(st.order, 1, instances, [r1 EXCEPT !.order = st.order])

\* An initialize() that runs the constructors of the components resolved so
\* far before it raises the error of a dependency.
InitializeResolvedFirst(pending, idx, c, instances) ==
    LET acc0 == [err |-> "none", errName |-> "", errType |-> "object", candidates |-> <<>>,
                 kw |-> [i \in 1..Len(instances) |-> instances[i].kwargs],
                 hasDeps |-> <<>>, defs |-> [n \in {instances[i].name : i \in 1..Len(instances)} |-> NoDef], order |-> <<>>,
                 c |-> c, log |-> <<>>]
        r1 == ResolveAll(pending, 1, idx, Len(c), instances, acc0)
    IN IF r1.err # "none"
       THEN [Construct(r1.order, 1, instances, [r1 EXCEPT !.err = "none"]) EXCEPT !.err = r1.err]
       ELSE OrderAndConstruct(r1,
                VisitAll(r1.hasDeps, 1,
                         [visited |-> {}, order |-> r1.order, err |-> "none"], r1.defs),
                instances)

\* ComponentFactory.initialize as a whole.
Initialize(pending, idx, c, instances) ==
    LET acc0 == [err |-> "none", errName |-> "", errType |-> "object", candidates |-> <<>>,
                 kw |-> [i \in 1..Len(instances) |-> instances[i].kwargs],
                 hasDeps |-> <<>>, defs |-> [n \in {instances[i].name : i \in 1..Len(instances)} |-> NoDef], order |-> <<>>,
                 c |-> c, log |-> <<>>]
        r1 == ResolveAll(pending, 1, idx, Len(c), instances, acc0)
    IN IF r1.err # "none" THEN r1
       ELSE OrderAndConstruct(r1,
                VisitAll(r1.hasDeps, 1,
                         [visited |-> {}, order |-> r1.order, err |-> "none"], r1.defs),
                instances)

\* ---------------------------------------------- the factory specification
NoExit == [kind |-> "none", err |-> "none", errName |-> "", errType |-> "object",
           candidates |-> <<>>, added |-> <<>>, order |-> <<>>]

\* The application before run() is called.
NoApp ==
    [phase |-> "idle", calls |-> <<>>, builds |-> <<>>, last |-> "none", ended |-> {},
     gathered |-> {}, drain |-> "none", stopped |-> FALSE]

InitFactory ==
    /\ app = NoApp
    /\ container = <<>>
    /\ scope = "closed"
    /\ toInit = <<>>
    /\ typeIdx = NewTypeIdx
    /\ inst = <<>>
    /\ ctorLog = <<>>
    /\ lastExit = NoExit
    /\ scopeBase = <<>>

InitContainer ==
    /\ cAddLog = <<>>
    /\ cPrev = <<>>

\* Application.factory: a fresh ComponentFactory over the application's
\* container, entered as a context manager.
EnterScope ==
    /\ scope = "closed"
    /\ Len(inst) < MaxAdd
    /\ scope' = "open"
    /\ toInit' = <<>>
    /\ typeIdx' = NewTypeIdx
    /\ scopeBase' = container
    /\ lastExit' = NoExit
    /\ UNCHANGED <<container, inst, ctorLog>>
    /\ UNCHANGED otherThanFactory

\* The object behind a value handed over as a property: a Reference with a
\* selector resolved to the attribute add() made on the referred instance;
\* any other value is no reactive object.
NoObject == [name |-> "", cls |-> "object", seed |-> "", owner |-> 0]

ObjectOf(instances, v) ==
    IF v.t = "attribute" /\ \E k \in 1..Len(instances[v.id].attrs) :
                               instances[v.id].attrs[k].name = v.prop
    THEN instances[v.id].attrs[CHOOSE k \in 1..Len(instances[v.id].attrs) :
                                  instances[v.id].attrs[k].name = v.prop]
    ELSE NoObject

\* isinstance(value, Property) and isinstance(value, EventSource): a
\* PropertyImpl or PropertyView is both, an EventSourceImpl is an EventSource.
IsInstance(obj, origin) ==
    IF origin = "Property" THEN obj.cls \in {"PropertyImpl", "PropertyView"}
    ELSE obj.cls \in {"PropertyImpl", "PropertyView", "EventSourceImpl"}

\* The entry of the dict `properties` under a key.
HasKey(props, key) == \E k \in 1..Len(props.keys) : props.keys[k] = key

ValueAt(props, key) == props.vals[CHOOSE k \in 1..Len(props.keys) : props.keys[k] = key]

\* _ObjectInitializer._resolve_field. `factory` tells whether a default
\* factory was passed (EventSourceImpl, for events). The result names where
\* the value came from: the entry of properties, a fresh default() object,
\* None for an Optional element type, or the class-level default.
ResolveField(field, props, factory, instances) ==
    IF HasKey(props, field.name)
    THEN IF IsInput(field.default)
            /\ ~IsInstance(ObjectOf(instances, ValueAt(props, field.name)), field.origin)
         THEN [err |-> "TypeError", seed |-> "props"]
         ELSE [err |-> "none", seed |-> "props"]
    ELSE IF field.default = "Ellipsis"
         THEN IF factory THEN [err |-> "none", seed |-> "fresh"]
              ELSE IF field.optional THEN [err |-> "none", seed |-> "None"]
              ELSE [err |-> "ValueError", seed |-> ""]
         ELSE IF IsInput(field.default) THEN [err |-> "ValueError", seed |-> ""]
         ELSE [err |-> "none", seed |-> "default"]

\* _ObjectInitializer._add_property, given what _resolve_field returned: the
\* attribute set on the instance, or the error raised. A value rejected with
\* TypeError is wrapped in a PropertyImpl of its own and viewed.
AddProperty(r, field, props, instances, id) ==
    IF r.err = "ValueError" THEN [err |-> "MissingValue", field |-> field.name, attr |-> NoObject]
    ELSE IF r.err = "TypeError"
            \/ (r.seed = "props"
                /\ IsInstance(ObjectOf(instances, ValueAt(props, field.name)), "Property"))
    THEN [err |-> "none", field |-> "",
          attr |-> [name |-> field.name, cls |-> "PropertyView", seed |-> r.seed, owner |-> id]]
    ELSE [err |-> "none", field |-> "",
          attr |-> [name |-> field.name, cls |-> "PropertyImpl", seed |-> r.seed, owner |-> id]]

\* _ObjectInitializer._add_event, given what _resolve_field returned: an
\* EventSource handed over is taken as it is, anything else is dropped for a
\* fresh EventSourceImpl.
AddEvent(r, field, props, instances, id) ==
    IF r.err = "ValueError" THEN [err |-> "MissingValue", field |-> field.name, attr |-> NoObject]
    ELSE IF r.err = "TypeError"
    THEN [err |-> "InvalidValue", field |-> field.name, attr |-> NoObject]
    ELSE IF r.seed = "props"
            /\ IsInstance(ObjectOf(instances, ValueAt(props, field.name)), "EventSource")
    THEN [err |-> "none", field |-> "",
          attr |-> [ObjectOf(instances, ValueAt(props, field.name)) EXCEPT
                        !.name = field.name, !.seed = "props"]]
    ELSE [err |-> "none", field |-> "",
          attr |-> [name |-> field.name, cls |-> "EventSourceImpl", seed |-> r.seed, owner |-> id]]

\* _ObjectInitializer._initialize_fields from the i-th reflected field on:
\* the properties, then the events. acc = [err, field, attrs, popped]: popped
\* holds the keys _resolve_field has popped from the dict `properties`.
AddField(field, props, instances, id) ==
    IF field.origin = "Property"
    THEN AddProperty(ResolveField(field, props, FALSE, instances), field, props, instances, id)
    ELSE AddEvent(ResolveField(field, props, TRUE, instances), field, props, instances, id)

RECURSIVE InitializeFrom(_, _, _, _, _, _)
InitializeNext(a, fields, i, props, instances, id, acc) ==
    IF a.err = "MissingValue" THEN [acc EXCEPT !.err = a.err, !.field = a.field]
    ELSE IF a.err # "none"
    THEN [acc EXCEPT !.err = a.err, !.field = a.field, !.popped = @ \cup {fields[i].name}]
    ELSE InitializeFrom(fields, i + 1, props, instances, id,
                        [acc EXCEPT !.attrs = Append(@, a.attr),
                                    !.popped = @ \cup {fields[i].name}])

InitializeFrom(fields, i, props, instances, id, acc) ==
    IF i > Len(fields) THEN acc
    ELSE InitializeNext(AddField(fields[i], props, instances, id),
                        fields, i, props, instances, id, acc)

NothingInitialized == [err |-> "none", field |-> "", attrs |-> <<>>, popped |-> {}]

InitializeFields(cls, props, instances, id) ==
    IF ~NeedInitializing(cls) THEN NothingInitialized
    ELSE InitializeFrom(ReflectionProperties(cls) \o ReflectionEvents(cls), 1, props,
                        instances, id, NothingInitialized)

\* The dict `properties` once the keys in `popped` are popped from it.
Popped(props, popped) ==
    [wrap |-> props.wrap,
     vals |-> [k \in 1..Len(SelectSeq(props.keys, LAMBDA key : key \notin popped)) |->
                ValueAt(props, SelectSeq(props.keys, LAMBDA key : key \notin popped)[k])],
     keys |-> SelectSeq(props.keys, LAMBDA key : key \notin popped)]

\* ComponentFactory.add, lines 250-254, once the fields are initialized.
QueueInstance(fs, name, cls, fields, r) ==
    IF r.err # "none"
    THEN [err |-> r.err, errField |-> r.field, popped |-> r.popped,
          inst |-> fs.inst, toInit |-> fs.toInit, typeIdx |-> fs.typeIdx]
    ELSE [err |-> "none", errField |-> "", popped |-> r.popped,
          inst |-> Append(fs.inst, [name |-> name, cls |-> cls, kwargs |-> NoKwargs,
                                    fields |-> fields, attrs |-> r.attrs]),
          toInit |-> Append(fs.toInit, Len(fs.inst) + 1),
          typeIdx |-> SaveComponentType(fs.typeIdx, cls, Len(fs.inst) + 1)]

\* ComponentFactory.add(name, type_, args, kwargs, properties) on the factory
\* fs = [inst, toInit, typeIdx]; the new instance is the last one of inst. An
\* error of the field initialisation leaves the factory as it was.
FactoryAdd(fs, name, cls, fields) ==
    QueueInstance(fs, name, cls, fields,
                  InitializeFields(cls, fields.props, fs.inst, Len(fs.inst) + 1))

\* factory.add(name, type_) called in an open scope
Add(name, cls) ==
    /\ scope = "open"
    /\ Len(inst) < MaxAdd
    /\ LET r == FactoryAdd([inst |-> inst, toInit |-> toInit, typeIdx |-> typeIdx],
                            name, cls, NoFields)
       IN /\ r.err = "none"
          /\ inst' = r.inst
          /\ toInit' = r.toInit
          /\ typeIdx' = r.typeIdx
    /\ UNCHANGED <<container, scope, ctorLog, lastExit, scopeBase>>
    /\ UNCHANGED otherThanFactory

\* ComponentFactory.__exit__ with exc_val None: initialize() runs.
ExitOk ==
    /\ scope = "open"
    /\ LET r == Initialize(toInit, typeIdx, container, inst) IN
        /\ container' = r.c
        /\ ctorLog' = ctorLog \o r.log
        /\ inst' = [i \in 1..Len(inst) |-> [inst[i] EXCEPT !.kwargs = r.kw[i]]]
        /\ toInit' = IF r.err = "none" THEN <<>> ELSE toInit
        /\ lastExit' = [kind |-> "ok", err |-> r.err, errName |-> r.errName,
                        errType |-> r.errType, candidates |-> r.candidates,
                        added |-> toInit, order |-> r.order]
    /\ scope' = "closed"
    /\ UNCHANGED <<typeIdx, scopeBase>>
    /\ UNCHANGED otherThanFactory

\* ExitError as it would be without the `if exc_val is None` test.
ExitErrorInitializes ==
    /\ scope = "open"
    /\ LET r == Initialize(toInit, typeIdx, container, inst) IN
        /\ container' = r.c
        /\ ctorLog' = ctorLog \o r.log
        /\ inst' = [i \in 1..Len(inst) |-> [inst[i] EXCEPT !.kwargs = r.kw[i]]]
        /\ toInit' = IF r.err = "none" THEN <<>> ELSE toInit
        /\ lastExit' = [NoExit EXCEPT !.kind = "error", !.added = toInit]
    /\ scope' = "closed"
    /\ UNCHANGED <<typeIdx, scopeBase>>
    /\ UNCHANGED otherThanFactory

\* ComponentFactory.__exit__ with an exception in flight: nothing is run.
ExitError ==
    /\ scope = "open"
    /\ scope' = "closed"
    /\ lastExit' = [NoExit EXCEPT !.kind = "error", !.added = toInit]
    /\ UNCHANGED <<container, toInit, typeIdx, inst, ctorLog, scopeBase>>
    /\ UNCHANGED otherThanFactory

NamesUsed == {inst[i].name : i \in 1..Len(inst)}

AddNames == NamesUsed \cup {NameSeq[Cardinality(NamesUsed) + 1]}

Next ==
    \/ EnterScope
    \/ \E name \in AddNames, cls \in Classes : Add(name, cls)
    \/ ExitOk
    \/ ExitError

\* -------------------------------------------- the container specification
\* ComponentContainer.add(component), the component being a fresh instance.
CAdd(name) ==
    /\ Len(cAddLog) < MaxCAdd
    /\ LET id == Len(cAddLog) + 1
           r == ContainerAdd(container, name, id)
       IN /\ container' = r.c
          /\ cAddLog' = Append(cAddLog, [name |-> name, id |-> id, err |-> r.err])
          /\ cPrev' = container
    /\ UNCHANGED <<scope, toInit, typeIdx, inst, ctorLog, lastExit, scopeBase>>
    /\ UNCHANGED otherThanContainer

\* The factory scope with the classes of InjectClasses.
NextInject ==
    \/ EnterScope
    \/ \E name \in AddNames, cls \in InjectClasses : Add(name, cls)
    \/ ExitOk
    \/ ExitError

NextContainer == \E name \in {NameSeq[i] : i \in 1..3} : CAdd(name)

\* ------------------------------------------------------- the application
\* isinstance(component, Setup) and isinstance(component, Runnable): the
\* runtime-checkable protocols look for the methods.
IsSetup(cls) == cls \in {"CRun", "CRaise", "CSetup"}

IsRunnable(cls) == cls \in {"CRun", "CRaise"}

\* for component in self.components, as it would be if the application
\* walked everything add() has made.
ComponentsAdded(c, instances) == [i \in 1..Len(instances) |-> i]

\* for component in self.components: the instances of the container, in
\* the order they were registered.
Components(c, instances) == [i \in 1..Len(c) |-> c[i].id]

\* The calls of the method op the application makes on the components ids.
CallsOf(op, ids) ==
    [i \in 1..Len(ids) |-> [op |-> op, id |-> ids[i], nbuilds |-> Len(app.builds),
                            nlog |-> Len(ctorLog)]]

SetupCalls ==
    CallsOf("setup", SelectSeq(Components(container, inst), LAMBDA id : IsSetup(inst[id].cls)))

RunCalls ==
    CallsOf("run", SelectSeq(Components(container, inst), LAMBDA id : IsRunnable(inst[id].cls)))

StopCalls ==
    CallsOf("stop", SelectSeq(Components(container, inst), LAMBDA id : IsRunnable(inst[id].cls)))

\* The end of the with block of Application.factory() without an exception:
\* ComponentFactory.__exit__ runs initialize().
LeaveFactory ==
    /\ scope = "open"
    /\ Len(app.builds) < MaxBuilds
    /\ LET r == Initialize(toInit, typeIdx, container, inst) IN
        /\ container' = r.c
        /\ ctorLog' = ctorLog \o r.log
        /\ inst' = [i \in 1..Len(inst) |-> [inst[i] EXCEPT !.kwargs = r.kw[i]]]
        /\ toInit' = IF r.err = "none" THEN <<>> ELSE toInit
        /\ lastExit' = [kind |-> "ok", err |-> r.err, errName |-> r.errName,
                        errType |-> r.errType, candidates |-> r.candidates,
                        added |-> toInit, order |-> r.order]
        /\ app' = [app EXCEPT !.builds = Append(@, [added |-> toInit, err |-> r.err,
                                                     nlog |-> Len(ctorLog) + Len(r.log)])]
    /\ scope' = "closed"
    /\ UNCHANGED <<typeIdx, scopeBase>>
    /\ UNCHANGED <<cvars, evars, dvars, svars, ovars, lvars>>

\* The coroutine of the k-th call the application made has not ended, or has
\* ended as out ("returned" or "raised").
Pending(k) == k \in 1..Len(app.calls) /\ \A x \in app.ended : x.k # k

Ended(k, out) == [k |-> k, out |-> out] \in app.ended

\* The places in app.calls of the n calls made next.
NewCalls(n) == (Len(app.calls) + 1)..(Len(app.calls) + n)

\* await application.run(), up to its first await: _setup_components calls
\* setup() on every Setup component and awaits them gathered; with none to
\* await, run() goes on to gather dispatcher.run() and the components' run().
AppRun ==
    /\ app.phase = "idle"
    /\ Len(app.calls) + Len(SetupCalls) + Len(RunCalls) <= MaxAppCalls
    /\ app' = IF SetupCalls # <<>>
              THEN [app EXCEPT !.phase = "setup", !.calls = @ \o SetupCalls,
                               !.gathered = NewCalls(Len(SetupCalls)), !.drain = "none",
                               !.stopped = FALSE]
              ELSE [app EXCEPT !.phase = "running", !.calls = @ \o RunCalls,
                               !.gathered = NewCalls(Len(RunCalls)), !.drain = "pending",
                               !.stopped = FALSE]
    /\ UNCHANGED <<fvars, cvars, evars, dvars, svars, ovars, lvars>>

\* A run() that does not wait for the setups it gathered.
AppRunComponentsAtOnce ==
    /\ app.phase = "setup"
    /\ Len(app.calls) + Len(RunCalls) <= MaxAppCalls
    /\ app' = [app EXCEPT !.phase = "running", !.calls = @ \o RunCalls,
                          !.gathered = NewCalls(Len(RunCalls)), !.drain = "pending"]
    /\ UNCHANGED <<fvars, cvars, evars, dvars, svars, ovars, lvars>>

\* run() once the gathered setups have all returned: run() is called on every
\* Runnable component, and these are gathered with dispatcher.run().
AppRunComponents ==
    /\ app.phase = "setup"
    /\ \A k \in app.gathered : Ended(k, "returned")
    /\ Len(app.calls) + Len(RunCalls) <= MaxAppCalls
    /\ app' = [app EXCEPT !.phase = "running", !.calls = @ \o RunCalls,
                          !.gathered = NewCalls(Len(RunCalls)), !.drain = "pending"]
    /\ UNCHANGED <<fvars, cvars, evars, dvars, svars, ovars, lvars>>

\* The coroutine of a call the application made ends: it returns or raises.
\* asyncio.gather hands the first exception of what it gathers to the run()
\* that awaits it, which raises; the other coroutines go on.
AppCallEnds(k, out) ==
    /\ Pending(k)
    /\ app' = IF out = "raised" /\ k \in app.gathered /\ app.phase # "idle"
              THEN [app EXCEPT !.ended = @ \cup {[k |-> k, out |-> out]},
                               !.phase = "idle", !.last = "raised"]
              ELSE [app EXCEPT !.ended = @ \cup {[k |-> k, out |-> out]}]
    /\ UNCHANGED <<fvars, cvars, evars, dvars, svars, ovars, lvars>>

\* The dispatcher.run() that run() gathered returns.
AppDrainReturns ==
    /\ app.drain = "pending"
    /\ app' = [app EXCEPT !.drain = "returned"]
    /\ UNCHANGED <<fvars, cvars, evars, dvars, svars, ovars, lvars>>

\* run() returns: everything it gathered has returned.
AppRunReturns ==
    /\ app.phase = "running"
    /\ app.drain = "returned"
    /\ \A k \in app.gathered : Ended(k, "returned")
    /\ app' = [app EXCEPT !.phase = "idle", !.last = "returned"]
    /\ UNCHANGED <<fvars, cvars, evars, dvars, svars, ovars, lvars>>

\* A stop() that also cancels the run() that is pending.
AppStopCancels ==
    /\ StopCalls # <<>>
    /\ Len(app.calls) + Len(StopCalls) <= MaxAppCalls
    /\ app' = [app EXCEPT !.calls = @ \o StopCalls,
                          !.stopped = @ \/ app.phase # "idle",
                          !.phase = "idle", !.last = "raised"]
    /\ UNCHANGED <<fvars, cvars, evars, dvars, svars, ovars, lvars>>

\* await application.stop(): stop() is called on every Runnable component and
\* the calls are gathered.
AppStop ==
    /\ StopCalls # <<>>
    /\ Len(app.calls) + Len(StopCalls) <= MaxAppCalls
    /\ app' = [app EXCEPT !.calls = @ \o StopCalls,
                          !.stopped = @ \/ app.phase # "idle"]
    /\ UNCHANGED <<fvars, cvars, evars, dvars, svars, ovars, lvars>>

NextApp ==
    \/ EnterScope
    \/ \E cls \in AppClasses : Add(NameSeq[Len(inst) + 1], cls)
    \/ LeaveFactory
    \/ AppRun
    \/ AppRunComponents
    \/ \E k \in 1..MaxAppCalls, out \in {"returned", "raised"} : AppCallEnds(k, out)
    \/ AppDrainReturns
    \/ AppRunReturns
    \/ AppStop

\* ------------------------------------ an application that is run and stopped
\* The k-th call is the run() of a component whose stop() has been called.
StoppedRun(k) ==
    /\ k \in 1..Len(app.calls) /\ app.calls[k].op = "run"
    /\ \E j \in 1..Len(app.calls) : app.calls[j].op = "stop" /\ app.calls[j].id = app.calls[k].id

\* The program builds its components, then runs the application and stops it
\* while run() is pending or not. The components are such that a run() whose
\* component has been stopped does not raise.
NextRun ==
    \/ app.calls = <<>> /\ app.phase = "idle" /\ EnterScope
    \/ \E cls \in RunClasses : Add(NameSeq[Len(inst) + 1], cls)
    \/ app.calls = <<>> /\ app.phase = "idle" /\ LeaveFactory
    \/ AppRun
    \/ AppRunComponents
    \/ \E k \in 1..MaxAppCalls, out \in {"returned", "raised"} :
            (out = "raised" => ~StoppedRun(k)) /\ AppCallEnds(k, out)
    \/ AppDrainReturns
    \/ AppRunReturns
    \/ (app.phase = "setup" => Len(app.calls) + Len(StopCalls) + Len(RunCalls) <= MaxAppCalls)
            /\ AppStop

\* ------------------------------------------------- the event dispatcher
\* Listeners: s1, s2 are plain functions, a1 is a coroutine function.
Listeners == {"s1", "s2", "a1"}

\* Listeners that dispatch an event to the next source of a chain: sd is a
\* plain function, ad a coroutine function, aw a coroutine function that
\* awaits asyncio.sleep(0) before it dispatches.
ChainListeners == {"sd", "ad", "aw"}

\* asyncio.iscoroutinefunction(listener)
IsCoroutineFunction(l) == l \in {"a1", "ad", "aw"}

Values == {0, 1}

Handle(k, l, e, t, r) == [k |-> k, l |-> l, e |-> e, t |-> t, r |-> r]

\* DefaultEventDispatcher.dispatch(sender, event, listeners), from the i-th
\* listener on. st = [ready, tasks, tracked]; e is the event.
RECURSIVE DispatchFrom(_, _, _, _)
DispatchFrom(st, e, ls, i) ==
    IF i > Len(ls) THEN st
    ELSE IF IsCoroutineFunction(ls[i])
         THEN LET t == Len(st.tasks) + 1 IN
              DispatchFrom(
                [ready |-> Append(st.ready, Handle("step", ls[i], e, t, 0)),
                 tasks |-> Append(st.tasks, [l |-> ls[i], e |-> e, status |-> "scheduled", steps |-> 0]),
                 tracked |-> Append(st.tracked, t)],
                e, ls, i + 1)
         ELSE DispatchFrom([st EXCEPT !.ready = Append(@, Handle("call", ls[i], e, 0, 0))],
                           e, ls, i + 1)

Reverse(s) == [i \in 1..Len(s) |-> s[Len(s) + 1 - i]]

\* dispatch() walking the listeners from the last to the first.
DispatchReversed(st, e, ls) == DispatchFrom(st, e, Reverse(ls), 1)

\* dispatch() that forgets to record the tasks it creates.
DispatchUntracked(st, e, ls) == [DispatchFrom(st, e, ls, 1) EXCEPT !.tracked = st.tracked]

Dispatch(st, e, ls) == DispatchFrom(st, e, ls, 1)

\* EventDispatcher.dispatch_for(sender, event, source)
DispatchFor(st, e, source) == Dispatch(st, e, source)

\* EventSourceImpl.dispatch(event): hands the source's listener list to the
\* shared dispatcher.
SourceDispatch(st, e, source) == Dispatch(st, e, source)

\* PropertyImpl._set_value that skips the event when the value is unchanged.
SetValueDeduplicated(value, new) ==
    IF new = value THEN [value |-> value, dispatched |-> <<>>]
    ELSE [value |-> new, dispatched |-> <<[value |-> new, prev |-> value]>>]

\* PropertyImpl._set_value that reads the previous value after the assignment.
SetValuePreviousRead(value, new) ==
    [value |-> new, dispatched |-> <<[value |-> new, prev |-> new]>>]

\* PropertyImpl._set_value: the new value, and the events it dispatches.
SetValue(value, new) ==
    LET prev_value == value
    IN [value |-> new, dispatched |-> <<[value |-> new, prev |-> prev_value]>>]

\* A removal that takes every occurrence away.
RemoveEvery(s, x) == SelectSeq(s, LAMBDA y : y # x)

\* list.remove(x): the first occurrence goes.
RemoveFirst(s, x) ==
    LET i == IndexOf(s, x)
    IN [j \in 1..(Len(s) - 1) |-> IF j < i THEN s[j] ELSE s[j + 1]]

LoopState == [ready |-> ready, tasks |-> tasks, tracked |-> tracked]

\* The tasks a dispatch to the registered listeners would create.
NewTasks == Cardinality({i \in 1..Len(listeners) : IsCoroutineFunction(listeners[i])})

\* No call was made on the event source yet.
NoSourceOp == [op |-> "none", l |-> "", err |-> "none", before |-> <<>>, ret |-> ""]

InitEvents ==
    /\ srcOp = NoSourceOp
    /\ chain = <<>>
    /\ control = "main"
    /\ ready = <<>>
    /\ tasks = <<>>
    /\ tracked = <<>>
    /\ runs = <<>>
    /\ listeners = <<>>
    /\ propValue = 0
    /\ events = <<>>
    /\ invoked = <<>>
    /\ writes = <<>>

\* EventSourceImpl.add_listener
AddListener(l) ==
    /\ control = "main"
    /\ Len(listeners) < MaxListeners
    /\ listeners' = Append(listeners, l)
    /\ UNCHANGED <<control, ready, tasks, tracked, runs, propValue, events, invoked, writes>>
    /\ UNCHANGED otherThanEvents

\* EventSourceImpl.remove_listener of a registered listener
RemoveListener(l) ==
    /\ control = "main"
    /\ l \in Range(listeners)
    /\ listeners' = RemoveFirst(listeners, l)
    /\ UNCHANGED <<control, ready, tasks, tracked, runs, propValue, events, invoked, writes>>
    /\ UNCHANGED otherThanEvents

\* dispatcher.dispatch_for(sender, event, source) called by the program
DispatchEvent ==
    /\ control = "main"
    /\ Len(events) < MaxEvents
    /\ Len(tasks) + NewTasks <= MaxTasks
    /\ LET e == Len(events) + 1
           st == DispatchFor(LoopState, e, listeners)
       IN /\ ready' = st.ready
          /\ tasks' = st.tasks
          /\ tracked' = st.tracked
          /\ events' = Append(events, [kind |-> "direct", value |-> 0, prev |-> 0,
                                       listeners |-> listeners])
    /\ UNCHANGED <<control, runs, listeners, propValue, invoked, writes>>
    /\ UNCHANGED otherThanEvents

\* property.value = v
AssignValue(v) ==
    /\ control = "main"
    /\ Len(events) < MaxEvents
    /\ Len(tasks) + NewTasks <= MaxTasks
    /\ LET r == SetValue(propValue, v)
           e == Len(events) + 1
           st == IF r.dispatched = <<>> THEN LoopState
                 ELSE SourceDispatch(LoopState, e, listeners)
       IN /\ propValue' = r.value
          /\ ready' = st.ready
          /\ tasks' = st.tasks
          /\ tracked' = st.tracked
          /\ events' = events \o [i \in 1..Len(r.dispatched) |->
                            [kind |-> "prop", value |-> r.dispatched[i].value,
                             prev |-> r.dispatched[i].prev, listeners |-> listeners]]
    /\ writes' = Append(writes, [new |-> v, old |-> propValue, regs |-> listeners,
                                 e |-> Len(events) + 1])
    /\ UNCHANGED <<control, runs, listeners, invoked>>
    /\ UNCHANGED otherThanEvents

IsFinished(t) == tasks[t].status \in {"done", "failed"}

\* await dispatcher.run(): asyncio.gather(*self._tasks). With no task the
\* gathered future is already done and the await does not suspend. Otherwise a
\* callback is attached to every task (and scheduled at once for a finished
\* one) and the program suspends.
RECURSIVE GatherCallbacks(_, _, _)
GatherCallbacks(snap, i, r) ==
    IF i > Len(snap) THEN <<>>
    ELSE (IF IsFinished(snap[i]) THEN <<Handle("gather_cb", "", 0, snap[i], r)>> ELSE <<>>)
         \o GatherCallbacks(snap, i + 1, r)

CallRun ==
    /\ control = "main"
    /\ Len(runs) < MaxRuns
    /\ LET r == Len(runs) + 1 IN
       IF tracked = <<>>
       THEN /\ runs' = Append(runs, [state |-> "returned", snap |-> <<>>, nfinished |-> 0,
                                     outer |-> "result"])
            /\ UNCHANGED <<control, ready>>
       ELSE /\ runs' = Append(runs, [state |-> "waiting", snap |-> tracked, nfinished |-> 0,
                                     outer |-> "pending"])
            /\ ready' = ready \o GatherCallbacks(tracked, 1, r)
            /\ control' = "loop"
    /\ UNCHANGED <<tasks, tracked, listeners, propValue, events, invoked, writes>>
    /\ UNCHANGED otherThanEvents

\* The program awaits something else (asyncio.sleep(0)): the loop takes over
\* and resumes it after the callbacks that are already queued.
Yield ==
    /\ control = "main"
    /\ ready # <<>>
    /\ ready' = Append(ready, Handle("resume", "", 0, 0, 0))
    /\ control' = "loop"
    /\ UNCHANGED <<tasks, tracked, runs, listeners, propValue, events, invoked, writes>>
    /\ UNCHANGED otherThanEvents

\* ------------------------------------------------------- the loop's steps
\* A callback scheduled by call_soon(listener, sender, event) runs.
LoopCall ==
    /\ control = "loop" /\ ready # <<>> /\ Head(ready).k = "call"
    /\ invoked' = Append(invoked, [l |-> Head(ready).l, e |-> Head(ready).e])
    /\ ready' = Tail(ready)
    /\ UNCHANGED <<control, tasks, tracked, runs, listeners, propValue, events, writes>>
    /\ UNCHANGED otherThanEvents

\* The callbacks of a task that has finished, in the order they were attached:
\* the dispatcher's _done_callback, then those of the run() calls gathering it.
RECURSIVE RunCallbacks(_, _)
RunCallbacks(t, r) ==
    IF r > Len(runs) THEN <<>>
    ELSE (IF t \in Range(runs[r].snap) THEN <<Handle("gather_cb", "", 0, t, r)>> ELSE <<>>)
         \o RunCallbacks(t, r + 1)

\* A step of a task after which only a task that returned runs its done
\* callbacks, and one that raised does not.
LoopStepSilentFailure(outcome) ==
    /\ control = "loop" /\ ready # <<>> /\ Head(ready).k = "step"
    /\ LET t == Head(ready).t IN
        /\ outcome = "suspended" => tasks[t].steps = 0
        /\ tasks' = [tasks EXCEPT ![t].status = outcome, ![t].steps = @ + 1]
        /\ invoked' = IF tasks[t].steps = 0
                      THEN Append(invoked, [l |-> tasks[t].l, e |-> tasks[t].e])
                      ELSE invoked
        /\ ready' = IF outcome \in {"suspended", "failed"} THEN Tail(ready)
                    ELSE Tail(ready) \o <<Handle("done_cb", "", 0, t, 0)>> \o RunCallbacks(t, 1)
    /\ UNCHANGED <<control, tracked, runs, listeners, propValue, events, writes>>
    /\ UNCHANGED otherThanEvents

\* A step of a task: the listener coroutine runs until it finishes, raises or
\* awaits something (at most once).
LoopStep(outcome) ==
    /\ control = "loop" /\ ready # <<>> /\ Head(ready).k = "step"
    /\ LET t == Head(ready).t IN
        /\ outcome = "suspended" => tasks[t].steps = 0
        /\ tasks' = [tasks EXCEPT ![t].status = outcome, ![t].steps = @ + 1]
        /\ invoked' = IF tasks[t].steps = 0
                      THEN Append(invoked, [l |-> tasks[t].l, e |-> tasks[t].e])
                      ELSE invoked
        /\ ready' = IF outcome = "suspended" THEN Tail(ready)
                    ELSE Tail(ready) \o <<Handle("done_cb", "", 0, t, 0)>> \o RunCallbacks(t, 1)
    /\ UNCHANGED <<control, tracked, runs, listeners, propValue, events, writes>>
    /\ UNCHANGED otherThanEvents

\* What a suspended listener awaits completes: its task is ready again.
Wake(t) ==
    /\ control = "loop"
    /\ t \in 1..Len(tasks) /\ tasks[t].status = "suspended"
    /\ tasks' = [tasks EXCEPT ![t].status = "woken"]
    /\ ready' = Append(ready, Handle("step", tasks[t].l, tasks[t].e, t, 0))
    /\ UNCHANGED <<control, tracked, runs, listeners, propValue, events, invoked, writes>>
    /\ UNCHANGED otherThanEvents

\* DefaultEventDispatcher._done_callback
LoopDoneCallback ==
    /\ control = "loop" /\ ready # <<>> /\ Head(ready).k = "done_cb"
    /\ tracked' = RemoveFirst(tracked, Head(ready).t)
    /\ ready' = Tail(ready)
    /\ UNCHANGED <<control, tasks, runs, listeners, propValue, events, invoked, writes>>
    /\ UNCHANGED otherThanEvents

\* The callback asyncio.gather attached to a task: the gathered future fails
\* with the first exception, or completes when every task has finished; the
\* coroutine awaiting it is then scheduled.
LoopGatherCallback ==
    /\ control = "loop" /\ ready # <<>> /\ Head(ready).k = "gather_cb"
    /\ LET t == Head(ready).t
           r == Head(ready).r
           n == runs[r].nfinished + 1
       IN IF runs[r].outer # "pending"
          THEN /\ runs' = [runs EXCEPT ![r].nfinished = n]
               /\ ready' = Tail(ready)
          ELSE IF tasks[t].status = "failed"
          THEN /\ runs' = [runs EXCEPT ![r].nfinished = n, ![r].outer = "exception"]
               /\ ready' = Append(Tail(ready), Handle("wake_run", "", 0, 0, r))
          ELSE IF n = Len(runs[r].snap)
          THEN /\ runs' = [runs EXCEPT ![r].nfinished = n, ![r].outer = "result"]
               /\ ready' = Append(Tail(ready), Handle("wake_run", "", 0, 0, r))
          ELSE /\ runs' = [runs EXCEPT ![r].nfinished = n]
               /\ ready' = Tail(ready)
    /\ UNCHANGED <<control, tasks, tracked, listeners, propValue, events, invoked, writes>>
    /\ UNCHANGED otherThanEvents

\* run() resumes: it returns, or raises the exception of the gathered future.
LoopWakeRun ==
    /\ control = "loop" /\ ready # <<>> /\ Head(ready).k = "wake_run"
    /\ runs' = [runs EXCEPT ![Head(ready).r].state =
                    IF runs[Head(ready).r].outer = "result" THEN "returned" ELSE "raised"]
    /\ ready' = Tail(ready)
    /\ control' = "main"
    /\ UNCHANGED <<tasks, tracked, listeners, propValue, events, invoked, writes>>
    /\ UNCHANGED otherThanEvents

LoopResume ==
    /\ control = "loop" /\ ready # <<>> /\ Head(ready).k = "resume"
    /\ ready' = Tail(ready)
    /\ control' = "main"
    /\ UNCHANGED <<tasks, tracked, runs, listeners, propValue, events, invoked, writes>>
    /\ UNCHANGED otherThanEvents

NextEvents ==
    \/ \E l \in Listeners : AddListener(l)
    \/ \E l \in Listeners : RemoveListener(l)
    \/ DispatchEvent
    \/ CallRun
    \/ Yield
    \/ LoopCall
    \/ \E outcome \in {"done", "failed", "suspended"} : LoopStep(outcome)
    \/ \E t \in 1..Len(tasks) : Wake(t)
    \/ LoopDoneCallback
    \/ LoopGatherCallback
    \/ LoopWakeRun
    \/ LoopResume

NextProperty ==
    \/ \E l \in Listeners : AddListener(l)
    \/ \E l \in Listeners : RemoveListener(l)
    \/ \E v \in Values : AssignValue(v)
    \/ Yield
    \/ LoopCall
    \/ \E outcome \in {"done", "failed", "suspended"} : LoopStep(outcome)
    \/ \E t \in 1..Len(tasks) : Wake(t)
    \/ LoopDoneCallback
    \/ LoopResume

\* ------------------------------------------- the event source and its caller
\* EventSource.listen(listener): add_listener(listener), then the listener
\* itself is returned.
Listen(ls, l) == [ls |-> Append(ls, l), ret |-> l]

\* A remove_listener that passes over a listener that is not registered.
RemoveListenerLenient(ls, l) ==
    IF IndexOf(ls, l) = 0 THEN [err |-> "none", ls |-> ls]
    ELSE [err |-> "none", ls |-> RemoveFirst(ls, l)]

\* EventSourceImpl.remove_listener: list.remove(listener) raises ValueError
\* when the listener is not in the list.
RemoveListenerFrom(ls, l) ==
    IF IndexOf(ls, l) = 0 THEN [err |-> "ValueError", ls |-> ls]
    ELSE [err |-> "none", ls |-> RemoveFirst(ls, l)]

\* source.add_listener(l), with what the caller sees of it.
SourceAdd(l) ==
    /\ control = "main"
    /\ Len(listeners) < MaxListeners
    /\ listeners' = Append(listeners, l)
    /\ srcOp' = [op |-> "add", l |-> l, err |-> "none", before |-> listeners, ret |-> ""]
    /\ UNCHANGED <<control, ready, tasks, tracked, runs, propValue, events, invoked, writes>>
    /\ UNCHANGED <<fvars, cvars, dvars, svars, ovars, avars, chain>>

\* source.remove_listener(l), of a registered listener or not.
SourceRemove(l) ==
    /\ control = "main"
    /\ listeners' = RemoveListenerFrom(listeners, l).ls
    /\ srcOp' = [op |-> "remove", l |-> l, err |-> RemoveListenerFrom(listeners, l).err,
                 before |-> listeners, ret |-> ""]
    /\ UNCHANGED <<control, ready, tasks, tracked, runs, propValue, events, invoked, writes>>
    /\ UNCHANGED <<fvars, cvars, dvars, svars, ovars, avars, chain>>

\* handle = source.listen(l)
SourceListen(l) ==
    /\ control = "main"
    /\ Len(listeners) < MaxListeners
    /\ listeners' = Listen(listeners, l).ls
    /\ srcOp' = [op |-> "listen", l |-> l, err |-> "none", before |-> listeners,
                 ret |-> Listen(listeners, l).ret]
    /\ UNCHANGED <<control, ready, tasks, tracked, runs, propValue, events, invoked, writes>>
    /\ UNCHANGED <<fvars, cvars, dvars, svars, ovars, avars, chain>>

NextSource ==
    \/ \E l \in Listeners : SourceAdd(l)
    \/ \E l \in Listeners : SourceRemove(l)
    \/ \E l \in Listeners : SourceListen(l)
    \/ DispatchEvent
    \/ Yield
    \/ LoopCall
    \/ \E outcome \in {"done", "failed"} : LoopStep(outcome)
    \/ LoopDoneCallback
    \/ LoopResume

\* ------------------------------------- Application.run() and listener chains
\* source.add_listener(l) on a new event source, the next of the chain: its
\* listener dispatches an event to the source registered after it.
ChainListen(l) ==
    /\ control = "main"
    /\ events = <<>> /\ app.phase = "idle" /\ app.last = "none"
    /\ Len(chain) < MaxChain
    /\ chain' = Append(chain, l)
    /\ UNCHANGED <<evars, fvars, cvars, dvars, svars, ovars, avars, srcOp>>

\* The listeners of the k-th source of the chain.
ChainSource(k) == IF k \in 1..Len(chain) THEN <<chain[k]>> ELSE <<>>

\* dispatcher.dispatch_for(sender, event, source) on the first source of the
\* chain, by the program, before it runs the application.
ChainDispatch ==
    /\ control = "main"
    /\ events = <<>> /\ app.phase = "idle" /\ app.last = "none"
    /\ chain # <<>>
    /\ LET st == DispatchFor(LoopState, 1, ChainSource(1))
       IN /\ ready' = st.ready
          /\ tasks' = st.tasks
          /\ tracked' = st.tracked
          /\ events' = <<[kind |-> "chain", value |-> 0, prev |-> 0, listeners |-> ChainSource(1)]>>
    /\ UNCHANGED <<control, runs, listeners, propValue, invoked, writes>>
    /\ UNCHANGED otherThanEvents

\* The body of a chain listener that received the event e: it dispatches the
\* event e + 1 to the next source (one without listeners after the last).
ChainBody(st, e) == DispatchFor(st, e + 1, ChainSource(e + 1))

ChainEvent(e) == [kind |-> "chain", value |-> 0, prev |-> 0, listeners |-> ChainSource(e)]

\* A synchronous chain listener scheduled by call_soon runs.
ChainCall ==
    /\ control = "loop" /\ ready # <<>> /\ Head(ready).k = "call"
    /\ LET e == Head(ready).e
           st == ChainBody([LoopState EXCEPT !.ready = Tail(ready)], e)
       IN /\ invoked' = Append(invoked, [l |-> Head(ready).l, e |-> e])
          /\ ready' = st.ready
          /\ tasks' = st.tasks
          /\ tracked' = st.tracked
          /\ events' = Append(events, ChainEvent(e + 1))
    /\ UNCHANGED <<control, runs, listeners, propValue, writes>>
    /\ UNCHANGED otherThanEvents

\* A step of the task of an asynchronous chain listener: aw first awaits
\* asyncio.sleep(0), which schedules the task's next step at once; then the
\* body dispatches and the task is done, its done callbacks are scheduled.
ChainStep ==
    /\ control = "loop" /\ ready # <<>> /\ Head(ready).k = "step"
    /\ LET t == Head(ready).t
           e == tasks[t].e
           st == ChainBody([LoopState EXCEPT !.ready = Tail(ready)], e)
       IN /\ invoked' = IF tasks[t].steps = 0
                         THEN Append(invoked, [l |-> tasks[t].l, e |-> e])
                         ELSE invoked
          /\ IF tasks[t].l = "aw" /\ tasks[t].steps = 0
             THEN /\ tasks' = [tasks EXCEPT ![t].status = "woken", ![t].steps = 1]
                  /\ ready' = Append(Tail(ready), Head(ready))
                  /\ UNCHANGED <<tracked, events>>
             ELSE /\ tasks' = [st.tasks EXCEPT ![t].status = "done", ![t].steps = @ + 1]
                  /\ ready' = st.ready \o <<Handle("done_cb", "", 0, t, 0)>> \o RunCallbacks(t, 1)
                  /\ tracked' = st.tracked
                  /\ events' = Append(events, ChainEvent(e + 1))
    /\ UNCHANGED <<control, runs, listeners, propValue, writes>>
    /\ UNCHANGED otherThanEvents

\* await application.run() with no Setup and no Runnable component in the
\* container: _setup_components awaits nothing, asyncio.gather wraps the
\* coroutine dispatcher.run() in a task, whose first step is scheduled, and
\* the program suspends until the gathered future is done.
ApplicationRun ==
    /\ control = "main"
    /\ app.phase = "idle" /\ app.last = "none"
    /\ SetupCalls = <<>> /\ RunCalls = <<>>
    /\ app' = [app EXCEPT !.phase = "running"]
    /\ ready' = Append(ready, Handle("run_step", "", 0, 0, 0))
    /\ control' = "loop"
    /\ UNCHANGED <<tasks, tracked, runs, listeners, propValue, events, invoked, writes>>
    /\ UNCHANGED <<fvars, cvars, dvars, svars, ovars, lvars>>

\* The first step of the task of dispatcher.run(): asyncio.gather(*self._tasks)
\* over the tasks tracked now. With none the coroutine returns at once and the
\* task's done callback, the one of the application's gather, is scheduled.
DispatcherRunStep ==
    /\ control = "loop" /\ ready # <<>> /\ Head(ready).k = "run_step"
    /\ IF tracked = <<>>
       THEN /\ runs' = Append(runs, [state |-> "returned", snap |-> <<>>, nfinished |-> 0,
                                     outer |-> "result"])
            /\ ready' = Append(Tail(ready), Handle("app_cb", "", 0, 0, 0))
       ELSE /\ runs' = Append(runs, [state |-> "waiting", snap |-> tracked, nfinished |-> 0,
                                     outer |-> "pending"])
            /\ ready' = Tail(ready) \o GatherCallbacks(tracked, 1, Len(runs) + 1)
    /\ UNCHANGED <<control, tasks, tracked, listeners, propValue, events, invoked, writes>>
    /\ UNCHANGED otherThanEvents

\* The task of dispatcher.run() resumes once its gathered future is done: the
\* coroutine returns and the task's done callback is scheduled.
DispatcherRunWakes ==
    /\ control = "loop" /\ ready # <<>> /\ Head(ready).k = "wake_run"
    /\ runs' = [runs EXCEPT ![Head(ready).r].state = "returned"]
    /\ ready' = Append(Tail(ready), Handle("app_cb", "", 0, 0, 0))
    /\ UNCHANGED <<control, tasks, tracked, listeners, propValue, events, invoked, writes>>
    /\ UNCHANGED otherThanEvents

\* The callback asyncio.gather attached to the task of dispatcher.run(): the
\* last of the gathered tasks is done, the future Application.run() awaits is
\* completed and the program's wake-up is scheduled.
ApplicationGatherCallback ==
    /\ control = "loop" /\ ready # <<>> /\ Head(ready).k = "app_cb"
    /\ ready' = Append(Tail(ready), Handle("app_wake", "", 0, 0, 0))
    /\ UNCHANGED <<control, tasks, tracked, runs, listeners, propValue, events, invoked, writes>>
    /\ UNCHANGED otherThanEvents

\* Application.run() resumes and returns to the program.
ApplicationRunReturns ==
    /\ control = "loop" /\ ready # <<>> /\ Head(ready).k = "app_wake"
    /\ ready' = Tail(ready)
    /\ control' = "main"
    /\ app' = [app EXCEPT !.phase = "idle", !.last = "returned"]
    /\ UNCHANGED <<tasks, tracked, runs, listeners, propValue, events, invoked, writes>>
    /\ UNCHANGED <<fvars, cvars, dvars, svars, ovars, lvars>>

NextDrain ==
    \/ \E l \in ChainListeners : ChainListen(l)
    \/ ChainDispatch
    \/ ApplicationRun
    \/ ChainCall
    \/ ChainStep
    \/ LoopDoneCallback
    \/ DispatcherRunStep
    \/ LoopGatherCallback
    \/ DispatcherRunWakes
    \/ ApplicationGatherCallback
    \/ ApplicationRunReturns

\* ------------------------------------------------------ the property view
\* PropertyView(owner, prop): a read-only view of another component's
\* Property. It keeps the wrapped property and nothing of its own; `initial`
\* is the value the property had when the view was made.
NoView == [made |-> FALSE, initial |-> 0]

\* view.value: the read is forwarded to the wrapped property.
ViewValue(v, value) == value

\* view.add_listener(l): the registration is forwarded, the listener joins
\* the wrapped property's list.
ViewAddListener(ls, l) == Append(ls, l)

\* A view whose setter forwards the write to the wrapped property.
ViewSetValueForwarded(value, new) ==
    [err |-> "none", value |-> new, dispatched |-> <<[value |-> new, prev |-> value]>>]

\* view.value = new: the write fails with InvalidMutation; the wrapped
\* property keeps its value and nothing is dispatched.
ViewSetValue(value, new) ==
    [err |-> "InvalidMutation", value |-> value, dispatched |-> <<>>]

\* _add_property, lines 98-99: the initial value of a component's property is
\* a live Property, and the field becomes a PropertyView of it.
MakeView ==
    /\ control = "main"
    /\ ~view.made
    /\ view' = [made |-> TRUE, initial |-> propValue]
    /\ UNCHANGED <<destinations, sends, viewLog, evars>>
    /\ UNCHANGED otherThanOutput

\* An operation made through the view: what it returned or raised, and the
\* wrapped property's value, events and scheduled callbacks before and after.
ViewOp(op, l, seen, err, after) ==
    [op |-> op, l |-> l, seen |-> seen, err |-> err,
     value |-> propValue, nwrites |-> Len(writes),
     nevents |-> Len(events), nready |-> Len(ready),
     after |-> after.value, eventsAfter |-> Len(events) + Len(after.dispatched),
     readyAfter |-> Len(after.ready)]

\* The property after an operation that left it alone.
Untouched == [value |-> propValue, dispatched |-> <<>>, ready |-> ready]

\* x = view.value
ViewRead ==
    /\ control = "main"
    /\ view.made /\ Len(viewLog) < MaxViewOps
    /\ viewLog' = Append(viewLog, ViewOp("read", "", ViewValue(view, propValue), "none", Untouched))
    /\ UNCHANGED <<destinations, sends, view, evars>>
    /\ UNCHANGED otherThanOutput

\* view.add_listener(l)
ViewListen(l) ==
    /\ control = "main"
    /\ view.made /\ Len(viewLog) < MaxViewOps
    /\ Len(listeners) < MaxListeners
    /\ listeners' = ViewAddListener(listeners, l)
    /\ viewLog' = Append(viewLog, ViewOp("listen", l, 0, "none", Untouched))
    /\ UNCHANGED <<control, ready, tasks, tracked, runs, propValue, events, invoked, writes>>
    /\ UNCHANGED <<destinations, sends, view>>
    /\ UNCHANGED otherThanOutput

\* The write of v through the view, given what the setter did.
ViewWritten(r, v) ==
    /\ propValue' = r.value
    /\ ready' = IF r.dispatched = <<>> THEN ready
                ELSE SourceDispatch(LoopState, Len(events) + 1, listeners).ready
    /\ tasks' = IF r.dispatched = <<>> THEN tasks
                ELSE SourceDispatch(LoopState, Len(events) + 1, listeners).tasks
    /\ tracked' = IF r.dispatched = <<>> THEN tracked
                  ELSE SourceDispatch(LoopState, Len(events) + 1, listeners).tracked
    /\ events' = events \o [i \in 1..Len(r.dispatched) |->
                      [kind |-> "prop", value |-> r.dispatched[i].value,
                       prev |-> r.dispatched[i].prev, listeners |-> listeners]]
    /\ viewLog' = Append(viewLog, ViewOp("write", "", v, r.err,
                        [value |-> r.value, dispatched |-> r.dispatched,
                         ready |-> IF r.dispatched = <<>> THEN ready
                                   ELSE SourceDispatch(LoopState, Len(events) + 1,
                                                       listeners).ready]))

\* view.value = v
ViewWrite(v) ==
    /\ control = "main"
    /\ view.made /\ Len(viewLog) < MaxViewOps
    /\ Len(tasks) + NewTasks <= MaxTasks
    /\ ViewWritten(ViewSetValue(propValue, v), v)
    /\ UNCHANGED <<control, runs, listeners, invoked, writes>>
    /\ UNCHANGED <<destinations, sends, view>>
    /\ UNCHANGED otherThanOutput

NextView ==
    \/ MakeView
    \/ ViewRead
    \/ \E l \in Listeners : ViewListen(l)
    \/ \E v \in Values : ViewWrite(v)
    \/ \E v \in Values : AssignValue(v)
    \/ Yield
    \/ LoopCall
    \/ \E outcome \in {"done", "failed", "suspended"} : LoopStep(outcome)
    \/ \E t \in 1..Len(tasks) : Wake(t)
    \/ LoopDoneCallback
    \/ LoopResume

\* --------------------------------------------------- the declaration schema
\* The three fields of a ComponentSchema, in the order _parse_components
\* walks them.
FieldKinds == <<"args", "kwargs", "props">>

Wraps == {"direct", "list", "dict"}

\* Names given to component schemas, and the names references point at.
BaseNames == {"a", "b"}

RefTargets == {"a", "b", "a.b"}

\* Names written in a declaration: the name of a top-level component (in the
\* declarations drawn here, the one written last) may itself hold a dot, and
\* then equal the name a nested schema is given.
DeclaredNames == BaseNames \cup {"a.b"}

\* The key of the i-th entry of kwargs, props or an inner dict.
KeyNames == <<"k1", "k2", "k3", "k4", "k5", "k6">>

\* A ComponentSchema object. Every schema of the model is of class CC.
SchemaObject(name, fields) ==
    [name |-> name, cls |-> "CC", fields |-> fields, to_refer |-> <<>>]

\* The processor walks schema.components as a list of ComponentSchema
\* objects, in order; the declaration is that list and the objects it reaches.
\* A declaration is drawn as a shape: objs[i] is the i-th schema object with
\* its name and the object it is nested in (0: a top-level component); the
\* object `holder` holds a Reference to the name `target` (holder 0: the
\* declaration has no reference). Every schema of the declaration keeps its
\* values in the field `kind`, wrapped as `wrap`: the reference first, then
\* the nested schemas.
RECURSIVE ChildrenOf(_, _, _)
ChildrenOf(objs, parent, j) ==
    IF j > Len(objs) THEN <<>>
    ELSE IF objs[j].parent = parent
         THEN <<j>> \o ChildrenOf(objs, parent, j + 1)
         ELSE ChildrenOf(objs, parent, j + 1)

ValuesOf(shape, i) ==
    LET ch == ChildrenOf(shape.objs, i, 1) IN
    (IF shape.holder = i THEN <<ReferenceOf(shape.target)>> ELSE <<>>)
        \o [k \in 1..Len(ch) |-> NestedSchema(ch[k])]

DeclarationOf(kind, wrap, shape) ==
    [heap |-> [i \in 1..Len(shape.objs) |->
                 SchemaObject(shape.objs[i].name,
                     [NoFields EXCEPT ![kind] =
                        [wrap |-> wrap, vals |-> ValuesOf(shape, i),
                         keys |-> SubSeq(KeyNames, 1, Len(ValuesOf(shape, i)))]])],
     components |-> ChildrenOf(shape.objs, 0, 1)]

Shapes(n) ==
    {shape \in [objs : [1..n -> [name : DeclaredNames, parent : 0..(n - 1)]],
                holder : 0..n, target : RefTargets \cup {""}] :
        /\ \A i \in 1..n : shape.objs[i].parent < i
        /\ \A i \in 1..n : (shape.objs[i].parent # 0 \/ i < n) =>
                               shape.objs[i].name \in BaseNames
        /\ (shape.holder = 0) = (shape.target = "")}

\* ------------------------------------------------ ComponentSchema(...)
\* A ComponentSchema object of any class.
ComponentSchemaOf(name, cls, fields) ==
    [name |-> name, cls |-> cls, fields |-> fields, to_refer |-> <<>>]

NoSchemaError == [err |-> "none", field |-> ""]

\* ComponentSchema.validate_schema, lines 134-142: the first reflected
\* property without an entry in props that has no class-level default, or
\* whose default is the Input marker.
RECURSIVE ValidateProperties(_, _, _)
ValidateProperties(fields, props, i) ==
    IF i > Len(fields) THEN NoSchemaError
    ELSE IF HasKey(props, fields[i].name) THEN ValidateProperties(fields, props, i + 1)
    ELSE IF fields[i].default = "Ellipsis"
    THEN [err |-> "MissingDefault", field |-> fields[i].name]
    ELSE IF IsInput(fields[i].default)
    THEN [err |-> "MissingInput", field |-> fields[i].name]
    ELSE ValidateProperties(fields, props, i + 1)

\* lines 143-147: the first reflected event without an entry in props whose
\* default is the Input marker.
RECURSIVE ValidateEvents(_, _, _)
ValidateEvents(fields, props, i) ==
    IF i > Len(fields) THEN NoSchemaError
    ELSE IF ~HasKey(props, fields[i].name) /\ IsInput(fields[i].default)
    THEN [err |-> "MissingInputEvent", field |-> fields[i].name]
    ELSE ValidateEvents(fields, props, i + 1)

\* ComponentSchema.validate_schema: the validation error raised, if any.
ValidateSchema(cls, props) ==
    IF ValidateProperties(ReflectionProperties(cls), props, 1).err # "none"
    THEN ValidateProperties(ReflectionProperties(cls), props, 1)
    ELSE ValidateEvents(ReflectionEvents(cls), props, 1)

\* The values a program writes into props: for each reflected field of the
\* class no entry, a literal or, for the first field, a Reference to a
\* component, with or without a selector.
NoEntry == [t |-> "absent", ref |-> "", prop |-> "", id |-> 0]

Selectors == {"", "temperature", "changed", "missing"}

References == {ReferenceTo(ref, prop) : ref \in BaseNames, prop \in Selectors}

EntryChoices(cls) ==
    {c \in [1..Len(ReflectionProps(cls)) -> {NoEntry, Literal} \cup References] :
        \A i \in 2..Len(ReflectionProps(cls)) : c[i] \in {NoEntry, Literal}}

\* The dict props that holds the entries chosen, in the order of the fields.
PropsAt(fields, c, present) ==
    [wrap |-> "direct",
     vals |-> [k \in 1..Len(present) |-> c[present[k]]],
     keys |-> [k \in 1..Len(present) |-> fields[present[k]].name]]

PropsFrom(cls, c) ==
    PropsAt(ReflectionProps(cls), c,
            SelectSeq([i \in 1..Len(ReflectionProps(cls)) |-> i],
                      LAMBDA i : c[i] # NoEntry))

\* The declaration with one more component.
WithComponent(d, schema) ==
    [heap |-> Append(d.heap, schema), components |-> Append(d.components, Len(d.heap) + 1)]

\* ----------------------------------------------- the declaration processor
\* The processor state p: err and errLoc describe the validation error that
\* ended __init__ (err = "none": it returned); heap is the deep copy of the
\* schema objects, indexed by object; components is schema.components;
\* schemas is _schemas, in insertion order; scans lists the schemas in the
\* order _parse_components walked them. The list _to_refer of the processor
\* is written and never read, and is left out.
SchemaNames(p) == {p.schemas[i].name : i \in 1..Len(p.schemas)}

SchemaId(p, name) ==
    p.schemas[CHOOSE i \in 1..Len(p.schemas) : p.schemas[i].name = name].id

NoLoc == [owner |-> "", kind |-> "", idx |-> 0, len |-> 0]

\* A registration that overwrites the schema already known by the name.
RegisterSchemaUnchecked(p, id, root) ==
    [p EXCEPT !.schemas = Append(@, [name |-> p.heap[id].name, id |-> id])]

\* DeclarationProcessor._register_schema
RegisterSchema(p, id, root) ==
    IF p.heap[id].name \in SchemaNames(p)
    THEN [p EXCEPT !.err = "DuplicateName",
                   !.errLoc = [owner |-> root, kind |-> "components", idx |-> 0, len |-> 0]]
    ELSE [p EXCEPT !.schemas = Append(@, [name |-> p.heap[id].name, id |-> id])]

RECURSIVE RegisterAll(_, _, _)
RegisterAll(p, ids, i) ==
    IF i > Len(ids) \/ p.err # "none" THEN p
    ELSE RegisterAll(RegisterSchema(p, ids[i], ""), ids, i + 1)

\* len(loc) of an entry: (name, field, key) when it sits in the field itself,
\* one longer inside a list or a dict.
LocLen(wrap) == IF wrap = "direct" THEN 3 ELSE 4

LocOf(schema, kind, i) ==
    [owner |-> schema.name, kind |-> kind, idx |-> i, len |-> LocLen(schema.fields[kind].wrap)]

\* Property and EventSource are runtime-checkable Protocols with members
\* that are not methods (Property.value, the property EventSource.listeners).
ProtocolsWithData == {"Property", "EventSource"}

\* issubclass(actual, expected). Against a Protocol with non-method members
\* typing raises TypeError("Protocols with non-method members don't support
\* issubclass()"), whatever the first argument is; otherwise the answer is
\* read off the mro.
IsSubclass(actual, expected) ==
    IF expected \in ProtocolsWithData THEN "TypeError"
    ELSE IF expected \in Range(Mro(actual)) THEN "True" ELSE "False"

\* parse_field, lines 141-147: the type expected of a reference that is an
\* entry of props itself and is named as a reflected field of the owner's
\* class: `prop.origin or prop.type`, the origin of a reflected field being
\* Property or EventSource. "Ellipsis": nothing is expected.
ExpectedType(schema, kind, i) ==
    IF /\ LocLen(schema.fields[kind].wrap) = 3
       /\ kind = "props"
       /\ GetProp(schema.cls, schema.fields[kind].keys[i]) # NoProp
    THEN GetProp(schema.cls, schema.fields[kind].keys[i]).origin
    ELSE "Ellipsis"

\* parse_field, lines 149-154: the type the reference provides. With a
\* selector it is the origin of the selected field of the referred class;
\* get_prop returns None for a name that is no reflected field, and
\* `ref_field.origin` is then an AttributeError.
ActualType(p, v) ==
    IF v.prop # ""
    THEN IF GetProp(p.heap[SchemaId(p, v.ref)].cls, v.prop) = NoProp
         THEN "AttributeError"
         ELSE GetProp(p.heap[SchemaId(p, v.ref)].cls, v.prop).origin
    ELSE p.heap[SchemaId(p, v.ref)].cls

\* parse_field, lines 155-165, given the two types: "none" when the
\* reference passes, else the error raised.
CompareTypes(actual, expected) ==
    IF actual = "AttributeError" THEN "AttributeError"
    ELSE IF IsSubclass(actual, expected) = "TypeError" THEN "TypeError"
    ELSE IF IsSubclass(actual, expected) = "False" THEN "TypeMismatch"
    ELSE "none"

\* parse_field, lines 141-165.
CheckReferenceType(p, schema, kind, i, v) ==
    IF ExpectedType(schema, kind, i) = "Ellipsis" THEN "none"
    ELSE CompareTypes(ActualType(p, v), ExpectedType(schema, kind, i))

\* parse_field, line 135, as it would be if only the entries of the field
\* itself were tested.
InvalidReferenceDirectOnly(p, v, len) == len = 3 /\ v.ref \notin SchemaNames(p)

\* parse_field, line 135: `field_value.ref not in self._schemas`
InvalidReference(p, v, len) == v.ref \notin SchemaNames(p)

\* parse_field, line 176, as it would be without the owner's name.
NestedNameUnqualified(owner, child) == child

\* parse_field, line 176: schema.name + "." + field_value.name
NestedName(owner, child) == owner \o "." \o child

\* A Replaceable: the owning schema, the location and the placeholder.
Replaceable(owner, kind, i, placeholder) ==
    [owner |-> owner, kind |-> kind, idx |-> i, placeholder |-> placeholder]

\* Replaceable.replace: the location is assigned the value.
Replace(heap, repl, value) ==
    [heap EXCEPT ![repl.owner].fields[repl.kind].vals[repl.idx] = value]

\* parse_field on the i-th entry of a field of schema object id.
\* st = [p, refs, decls]: the processor, `references` and `declaration`.
ParseField(st, id, kind, i) ==
    LET schema == st.p.heap[id]
        v == schema.fields[kind].vals[i]
        loc == LocOf(schema, kind, i)
    IN CASE v.t = "ref" ->
              IF InvalidReference(st.p, v, loc.len)
              THEN [st EXCEPT !.p.err = "UnknownReference", !.p.errLoc = loc]
              ELSE IF CheckReferenceType(st.p, schema, kind, i, v) # "none"
              THEN [st EXCEPT !.p.err = CheckReferenceType(st.p, schema, kind, i, v),
                              !.p.errLoc = loc]
              ELSE [st EXCEPT !.refs = Append(@, Replaceable(id, kind, i, v))]
         [] v.t = "schema" ->
              [st EXCEPT !.p.heap[v.id].name = NestedName(schema.name, @),
                         !.decls = Append(@, Replaceable(id, kind, i, v))]
         [] OTHER -> st

RECURSIVE ParseFields(_, _, _, _)
ParseFields(st, id, kind, i) ==
    IF i > Len(st.p.heap[id].fields[kind].vals) \/ st.p.err # "none" THEN st
    ELSE ParseFields(ParseField(st, id, kind, i), id, kind, i + 1)

\* _process_field, line 199: schema.to_refer.extend(references)
ExtendToRefer(st, id) ==
    IF st.p.err # "none" THEN [p |-> st.p, decls |-> st.decls]
    ELSE [p |-> [st.p EXCEPT !.heap[id].to_refer = @ \o st.refs], decls |-> st.decls]

\* DeclarationProcessor._process_field: walk one field, then extend the
\* schema's to_refer by the references found. r = [p, decls] is the processor
\* and the declarations found so far; a raised error ends the walk.
ProcessField(r, id, kind) ==
    IF r.p.err # "none" THEN r
    ELSE ExtendToRefer(ParseFields([p |-> r.p, refs |-> <<>>, decls |-> r.decls], id, kind, 1),
                       id)

\* DeclarationProcessor._parse_components from the i-th component on: args,
\* then kwargs, then props of each component.
RECURSIVE ParseComponents(_, _, _)
ParseComponents(r, comps, i) ==
    IF i > Len(comps) \/ r.p.err # "none" THEN r
    ELSE ParseComponents(
            ProcessField(
                ProcessField(
                    ProcessField([r EXCEPT !.p.scans = Append(@, comps[i])],
                                 comps[i], "args"),
                    comps[i], "kwargs"),
                comps[i], "props"),
            comps, i + 1)

\* _travel_schemas, lines 89-94, once the nested schema d.placeholder is
\* registered in p: a Reference to it joins the owner's to_refer and takes
\* its place.
PutReference(p, d) ==
    [p EXCEPT !.heap = Replace(
        [@ EXCEPT ![d.owner].to_refer =
            Append(@, Replaceable(d.owner, d.kind, d.idx,
                                  ReferenceOf(p.heap[d.placeholder.id].name)))],
        d, ReferenceOf(p.heap[d.placeholder.id].name))]

\* _travel_schemas, lines 87-94: register each nested schema found, and put
\* a Reference to it where it was. r = [p, new].
RECURSIVE DeclareAll(_, _, _)
DeclareNext(r, p1, decls, i) ==
    IF p1.err # "none" THEN [p |-> p1, new |-> r.new]
    ELSE DeclareAll([p |-> PutReference(p1, decls[i]),
                     new |-> Append(r.new, decls[i].placeholder.id)],
                    decls, i + 1)

DeclareAll(r, decls, i) ==
    IF i > Len(decls) \/ r.p.err # "none" THEN r
    ELSE DeclareNext(r, RegisterSchema(r.p, decls[i].placeholder.id,
                                       r.p.heap[decls[i].owner].name),
                     decls, i)

\* DeclarationProcessor._travel_schemas
RECURSIVE TravelSchemas(_, _)
\* A pass that walks the whole flattened list again while it finds new schemas.
TravelDeclaredFromTop(declared) ==
    IF declared.p.err # "none" \/ declared.new = <<>> THEN declared.p
    ELSE TravelSchemas([declared.p EXCEPT !.components = declared.new \o @],
                       declared.new \o declared.p.components)

TravelDeclared(declared) ==
    IF declared.p.err # "none" THEN declared.p
    ELSE TravelSchemas([declared.p EXCEPT !.components = declared.new \o @], declared.new)

TravelParsed(parsed) == TravelDeclared(DeclareAll([p |-> parsed.p, new |-> <<>>], parsed.decls, 1))

TravelSchemas(p, comps) ==
    IF comps = <<>> \/ p.err # "none" THEN p
    ELSE TravelParsed(ParseComponents([p |-> p, decls |-> <<>>], comps, 1))

\* DeclarationProcessor.__init__, lines 23-26
TravelAll(p) == TravelSchemas(p, p.components)

\* DeclarationProcessor.__init__
NewProcessor(d) ==
    TravelAll(RegisterAll([constructed |-> TRUE, createErr |-> "none",
                           err |-> "none", errLoc |-> NoLoc, heap |-> d.heap,
                           components |-> d.components, schemas |-> <<>>,
                           scans |-> <<>>, created |-> FALSE],
                          d.components, 1))

\* create_with.visit, lines 36-46. st = [visited, order]; order is
\* to_instantiate.
RECURSIVE VisitSchema(_, _, _)
RECURSIVE VisitReferred(_, _, _, _)
VisitSchema(p, id, st) ==
    IF p.heap[id].name \in st.visited THEN st
    ELSE LET st1 == [st EXCEPT !.visited = @ \cup {p.heap[id].name}]
             st2 == VisitReferred(p, p.heap[id].to_refer, 1, st1)
         IN [st2 EXCEPT !.order = Append(@, id)]

VisitReferred(p, repls, i, st) ==
    IF i > Len(repls) THEN st
    ELSE VisitReferred(p, repls, i + 1,
                       VisitSchema(p, SchemaId(p, repls[i].placeholder.ref), st))

\* lines 48-49: for schema in self.schema.components: visit(schema)
RECURSIVE VisitComponents(_, _, _)
VisitComponents(p, i, st) ==
    IF i > Len(p.components) THEN st
    ELSE VisitComponents(p, i + 1, VisitSchema(p, p.components[i], st))

\* The dict `references` of create_with: the instance last stored under name.
Referenced(references, name) ==
    references[CHOOSE i \in 1..Len(references) :
                  /\ references[i].name = name
                  /\ \A j \in (i + 1)..Len(references) : references[j].name # name].id

\* hasattr(instance, attr) of a component add() has made and whose
\* constructor has not run: its name and the attributes add() set.
HasAttr(instances, id, attr) ==
    attr = "name" \/ \E k \in 1..Len(instances[id].attrs) : instances[id].attrs[k].name = attr

\* Reference.resolve: KeyError when the name is not in references yet,
\* AttributeError when the referred instance has no attribute `prop`.
Resolve(v, references, instances) ==
    IF v.ref \notin {references[i].name : i \in 1..Len(references)}
    THEN [err |-> "KeyError", val |-> v]
    ELSE IF v.prop = ""
         THEN [err |-> "none", val |-> InstanceValue(Referenced(references, v.ref))]
         ELSE IF ~HasAttr(instances, Referenced(references, v.ref), v.prop)
         THEN [err |-> "AttributeError", val |-> v]
         ELSE [err |-> "none", val |-> [t |-> "attribute", ref |-> "", prop |-> v.prop,
                                        id |-> Referenced(references, v.ref)]]

\* lines 54-56: replace every reference of the schema by what it resolves to.
\* st = [err, p, fs, references, added].
RECURSIVE ResolveReferences(_, _, _)
ResolveReferences(st, repls, i) ==
    IF i > Len(repls) THEN st
    ELSE LET r == Resolve(repls[i].placeholder, st.references, st.fs.inst) IN
         IF r.err # "none" THEN [st EXCEPT !.err = r.err]
         ELSE ResolveReferences([st EXCEPT !.p.heap = Replace(@, repls[i], r.val)],
                                repls, i + 1)

\* lines 58-67: factory.add, then remember the component under its name.
\* add() pops the properties it consumes from the dict schema.props. a is
\* what add() returned or raised.
Remember(st, id, a) ==
    IF a.err # "none"
    THEN [st EXCEPT !.err = a.err,
                    !.p.heap[id].fields.props = Popped(@, a.popped)]
    ELSE [st EXCEPT !.fs = [inst |-> a.inst, toInit |-> a.toInit, typeIdx |-> a.typeIdx],
                    !.references = Append(@, [name |-> st.p.heap[id].name,
                                              id |-> Len(a.inst)]),
                    !.added = Append(@, Len(a.inst)),
                    !.p.heap[id].fields.props = Popped(@, a.popped)]

AddSchema(st, id) ==
    Remember(st, id, FactoryAdd(st.fs, st.p.heap[id].name, st.p.heap[id].cls,
                                st.p.heap[id].fields))

\* lines 53-67: for each schema to instantiate, resolve its references and
\* add it to the factory.
RECURSIVE Instantiate(_, _, _)
InstantiateNext(st1, order, i) ==
    IF st1.err # "none" THEN st1
    ELSE Instantiate(AddSchema(st1, order[i]), order, i + 1)

Instantiate(st, order, i) ==
    IF i > Len(order) \/ st.err # "none" THEN st
    ELSE InstantiateNext(ResolveReferences(st, st.p.heap[order[i]].to_refer, 1), order, i)

\* A create_with that does not look at _created.
CreateWithAgain(p, fs) ==
    Instantiate([err |-> "none", p |-> [p EXCEPT !.created = TRUE], fs |-> fs,
                 references |-> <<>>, added |-> <<>>],
                VisitComponents(p, 1, [visited |-> {}, order |-> <<>>]).order, 1)

\* DeclarationProcessor.create_with on the factory fs = [inst, toInit, typeIdx]
CreateWith(p, fs) ==
    IF p.created
    THEN [err |-> "ValueError", p |-> p, fs |-> fs, references |-> <<>>, added |-> <<>>]
    ELSE Instantiate([err |-> "none", p |-> [p EXCEPT !.created = TRUE], fs |-> fs,
                      references |-> <<>>, added |-> <<>>],
                     VisitComponents(p, 1, [visited |-> {}, order |-> <<>>]).order, 1)

\* ------------------------------------------ the declaration specification
NoProcessor ==
    [constructed |-> FALSE, createErr |-> "none", err |-> "none", errLoc |-> NoLoc,
     heap |-> <<>>, components |-> <<>>, schemas |-> <<>>, scans |-> <<>>,
     created |-> FALSE]

NoDeclaration == [heap |-> <<>>, components |-> <<>>]

InitDeclaration ==
    /\ \E n \in 0..MaxSchemas : \E shape \in Shapes(n) :
         \E kind \in Range(FieldKinds), wrap \in Wraps :
            decl = DeclarationOf(kind, wrap, shape)
    /\ proc = NoProcessor

\* processor = DeclarationProcessor(schema)
Process ==
    /\ ~proc.constructed
    /\ proc' = NewProcessor(decl)
    /\ UNCHANGED decl
    /\ UNCHANGED fvars
    /\ UNCHANGED otherThanBuild

\* Leaving the scope of a build: r is what create_with made of the processor
\* and the factory, x what initialize() makes of that factory. A create_with
\* that raised leaves the scope with the exception in flight, and then
\* nothing is initialized.
LeaveBuild(r, x) ==
    /\ proc' = [r.p EXCEPT !.createErr = r.err]
    /\ typeIdx' = r.fs.typeIdx
    /\ IF r.err # "none"
       THEN /\ inst' = r.fs.inst
            /\ toInit' = r.fs.toInit
            /\ lastExit' = [NoExit EXCEPT !.kind = "error", !.added = r.fs.toInit]
            /\ UNCHANGED <<container, ctorLog>>
       ELSE /\ container' = x.c
            /\ ctorLog' = ctorLog \o x.log
            /\ inst' = [i \in 1..Len(r.fs.inst) |-> [r.fs.inst[i] EXCEPT !.kwargs = x.kw[i]]]
            /\ toInit' = IF x.err = "none" THEN <<>> ELSE r.fs.toInit
            /\ lastExit' = [kind |-> "ok", err |-> x.err, errName |-> x.errName,
                            errType |-> x.errType, candidates |-> x.candidates,
                            added |-> r.fs.toInit, order |-> x.order]

InitializeBuilt(r) ==
    LeaveBuild(r, Initialize(r.fs.toInit, r.fs.typeIdx, container, r.fs.inst))

\* with application.factory() as factory: processor.create_with(factory)
Build ==
    /\ proc.constructed /\ proc.err = "none"
    /\ scope = "closed"
    /\ InitializeBuilt(CreateWith(proc, [inst |-> inst, toInit |-> <<>>,
                                         typeIdx |-> NewTypeIdx]))
    /\ scopeBase' = container
    /\ UNCHANGED <<scope, decl>>
    /\ UNCHANGED otherThanBuild

NextDeclaration ==
    \/ Process
    \/ Build

\* ---------------------------------- declarations of components that inject
\* The classes of the components of these declarations: CC takes nothing from
\* the factory, the constructor of CDisp is handed the dispatcher.
OrderClasses == {"CC", "CDisp"}

\* The declaration d with the classes cls given to its schemas, in the order
\* they are written.
WithClasses(d, cls) ==
    [d EXCEPT !.heap = [i \in 1..Len(d.heap) |-> [d.heap[i] EXCEPT !.cls = cls[i]]]]

InitOrder ==
    /\ \E n \in 1..MaxSchemas : \E shape \in Shapes(n) : \E cls \in [1..n -> OrderClasses] :
         \E kind \in {"args", "kwargs"}, wrap \in Wraps :
            /\ \A i \in 1..n : shape.objs[i].name \in BaseNames
            /\ decl = WithClasses(DeclarationOf(kind, wrap, shape), cls)
    /\ proc = NoProcessor

\* ------------------------------------- the reactive-schema specification
\* ComponentSchema(name=name, cls=cls, props=props), written as the next
\* component of the declaration. A schema that fails validation does not
\* exist, and the declaration stays without it.
MakeSchema(name, cls, props) ==
    /\ ~proc.constructed
    /\ Len(schemaLog) < MaxMade
    /\ schemaLog' = Append(schemaLog,
            [name |-> name, cls |-> cls, props |-> props,
             err |-> ValidateSchema(cls, props).err,
             field |-> ValidateSchema(cls, props).field])
    /\ decl' = IF ValidateSchema(cls, props).err = "none"
               THEN WithComponent(decl, ComponentSchemaOf(name, cls,
                                            [NoFields EXCEPT !.props = props]))
               ELSE decl
    /\ UNCHANGED <<proc, addLog>>
    /\ UNCHANGED <<fvars, cvars, evars, ovars, avars, lvars>>

\* ComponentSchema(name=name, cls=CC, args=[v]) or (..., kwargs={"k1": v}):
\* a component of a class without reflected fields that takes the Reference v
\* as a constructor argument.
MakeReferring(name, kind, v) ==
    /\ ~proc.constructed
    /\ Len(schemaLog) < MaxMade
    /\ schemaLog' = Append(schemaLog,
            [name |-> name, cls |-> "CC", props |-> EmptyField,
             err |-> "none", field |-> ""])
    /\ decl' = WithComponent(decl, ComponentSchemaOf(name, "CC",
                    [NoFields EXCEPT ![kind] =
                        [wrap |-> "direct", vals |-> <<v>>, keys |-> <<KeyNames[1]>>]]))
    /\ UNCHANGED <<proc, addLog>>
    /\ UNCHANGED <<fvars, cvars, evars, ovars, avars, lvars>>

\* Leaving a scope in which add() was called once: a is what add() returned
\* or raised, x what initialize() makes of the factory.
LeaveAdd(a, x) ==
    /\ typeIdx' = a.typeIdx
    /\ IF a.err # "none"
       THEN /\ lastExit' = [NoExit EXCEPT !.kind = "error", !.err = a.err,
                                          !.errName = a.errField]
            /\ UNCHANGED <<container, ctorLog, inst, toInit>>
       ELSE /\ container' = x.c
            /\ ctorLog' = ctorLog \o x.log
            /\ inst' = [i \in 1..Len(a.inst) |-> [a.inst[i] EXCEPT !.kwargs = x.kw[i]]]
            /\ toInit' = IF x.err = "none" THEN <<>> ELSE a.toInit
            /\ lastExit' = [kind |-> "ok", err |-> x.err, errName |-> x.errName,
                            errType |-> x.errType, candidates |-> x.candidates,
                            added |-> a.toInit, order |-> x.order]

Added(name, cls, props, a) ==
    /\ addLog' = Append(addLog, [name |-> name, cls |-> cls, props |-> props,
                                 err |-> a.err, field |-> a.errField,
                                 id |-> IF a.err = "none" THEN Len(a.inst) ELSE 0])
    /\ LeaveAdd(a, Initialize(a.toInit, a.typeIdx, container, a.inst))

\* with application.factory() as factory:
\*     factory.add(name, cls, properties=props)
\* with the class and the props of a ComponentSchema the program wrote, the
\* props holding no Reference.
AddWithProperties(e) ==
    /\ scope = "closed"
    /\ ~proc.constructed
    /\ Len(addLog) < MaxDirect
    /\ \A k \in 1..Len(e.props.vals) : e.props.vals[k].t # "ref"
    /\ Added(e.name, e.cls, e.props,
             FactoryAdd([inst |-> inst, toInit |-> <<>>, typeIdx |-> NewTypeIdx],
                        e.name, e.cls, [NoFields EXCEPT !.props = e.props]))
    /\ scopeBase' = container
    /\ UNCHANGED <<scope, schemaLog>>
    /\ UNCHANGED <<cvars, evars, dvars, ovars, avars, lvars>>

NextReactive ==
    \/ \E name \in BaseNames, cls \in ReactiveClasses :
          \E c \in EntryChoices(cls) : MakeSchema(name, cls, PropsFrom(cls, c))
    \/ \E name \in BaseNames, kind \in {"args", "kwargs"}, v \in References :
          MakeReferring(name, kind, v)
    \/ \E k \in 1..Len(schemaLog) : AddWithProperties(schemaLog[k])
    \/ Process
    \/ Build

\* No schema was constructed and no component added with properties yet.
InitLogs ==
    /\ schemaLog = <<>>
    /\ addLog = <<>>

\* ------------------------------------------------------------ the output
\* The Input objects the program can register as destinations.
Dests == {"i1", "i2"}

\* OutputImpl.__init__
InitOutput ==
    /\ destinations = <<>>
    /\ sends = <<>>
    /\ view = NoView
    /\ viewLog = <<>>

\* await output.add_destination(dest)
AddDestination(dest) ==
    /\ control = "main"
    /\ Len(destinations) < MaxDests
    /\ destinations' = Append(destinations, dest)
    /\ UNCHANGED <<sends, view, viewLog, evars>>
    /\ UNCHANGED otherThanOutput

\* await output.remove_destination(dest) of a registered destination
RemoveDestination(dest) ==
    /\ control = "main"
    /\ dest \in Range(destinations)
    /\ destinations' = RemoveFirst(destinations, dest)
    /\ UNCHANGED <<sends, view, viewLog, evars>>
    /\ UNCHANGED otherThanOutput

\* asyncio.gather(*(dest.receive_input(value) for dest in destinations)):
\* every coroutine is wrapped in a task, scheduled in the order of the list,
\* from the i-th destination on. st = [ready, tasks, snap]; s is the send.
RECURSIVE GatherInputs(_, _, _, _, _)
GatherInputs(st, dests, v, s, i) ==
    IF i > Len(dests) THEN st
    ELSE GatherInputs(
            [ready |-> Append(st.ready, Handle("receive", dests[i], v, Len(st.tasks) + 1, s)),
             tasks |-> Append(st.tasks, [l |-> dests[i], e |-> v,
                                         status |-> "scheduled", steps |-> 0]),
             snap |-> Append(st.snap, Len(st.tasks) + 1)],
            dests, v, s, i + 1)

\* The send() call after gather() has made its tasks: it awaits them.
Sending(st, v) ==
    /\ sends' = Append(sends, [state |-> "waiting", snap |-> st.snap, nfinished |-> 0,
                               outer |-> "pending", value |-> v, dests |-> destinations])
    /\ ready' = st.ready
    /\ tasks' = st.tasks
    /\ control' = "loop"

\* await output.send(value), lines 54-58. Without destinations nothing is
\* awaited and the call returns at once.
Send(v) ==
    /\ control = "main"
    /\ Len(sends) < MaxSends
    /\ IF destinations = <<>>
       THEN /\ sends' = Append(sends, [state |-> "returned", snap |-> <<>>, nfinished |-> 0,
                                       outer |-> "result", value |-> v, dests |-> <<>>])
            /\ UNCHANGED <<control, ready, tasks>>
       ELSE Sending(GatherInputs([ready |-> ready, tasks |-> tasks, snap |-> <<>>],
                                 destinations, v, Len(sends) + 1, 1), v)
    /\ UNCHANGED <<destinations, tracked, runs, listeners, propValue, events, invoked, writes>>
    /\ UNCHANGED <<view, viewLog>>
    /\ UNCHANGED otherThanOutput

\* A step of a receive_input() task: the destination's coroutine runs until it
\* finishes, raises (rejects the value) or awaits something (at most once).
ReceiveStep(outcome) ==
    /\ control = "loop" /\ ready # <<>> /\ Head(ready).k = "receive"
    /\ LET t == Head(ready).t IN
        /\ outcome = "suspended" => tasks[t].steps = 0
        /\ tasks' = [tasks EXCEPT ![t].status = outcome, ![t].steps = @ + 1]
        /\ invoked' = IF tasks[t].steps = 0
                      THEN Append(invoked, [l |-> tasks[t].l, e |-> tasks[t].e])
                      ELSE invoked
        /\ ready' = IF outcome = "suspended" THEN Tail(ready)
                    ELSE Append(Tail(ready), Handle("send_cb", "", 0, t, Head(ready).r))
    /\ UNCHANGED <<control, tracked, runs, listeners, propValue, events, writes>>
    /\ UNCHANGED ovars
    /\ UNCHANGED otherThanOutput

\* The send() call whose gather() made task t.
SendOf(t) == CHOOSE s \in 1..Len(sends) : t \in Range(sends[s].snap)

\* What a suspended destination awaits completes: its task is ready again.
WakeReceive(t) ==
    /\ control = "loop"
    /\ t \in 1..Len(tasks) /\ tasks[t].status = "suspended" /\ tasks[t].l \in Dests
    /\ tasks' = [tasks EXCEPT ![t].status = "woken"]
    /\ ready' = Append(ready, Handle("receive", tasks[t].l, tasks[t].e, t, SendOf(t)))
    /\ UNCHANGED <<control, tracked, runs, listeners, propValue, events, invoked, writes>>
    /\ UNCHANGED ovars
    /\ UNCHANGED otherThanOutput

\* The state of the future gather() returned after the callback of one of its
\* tasks (return_exceptions is left False): the first failure completes it
\* at once, otherwise it completes when every task has finished.
Gathered(outer, failed, n, total) ==
    IF outer # "pending" THEN outer
    ELSE IF failed THEN "exception"
    ELSE IF n = total THEN "result"
    ELSE "pending"

\* The callback gather() attached to a receive_input() task; when the gathered
\* future completes, the send() awaiting it is scheduled.
SendGatherCallback ==
    /\ control = "loop" /\ ready # <<>> /\ Head(ready).k = "send_cb"
    /\ LET s == Head(ready).r
           n == sends[s].nfinished + 1
           outer == Gathered(sends[s].outer, tasks[Head(ready).t].status = "failed",
                             n, Len(sends[s].snap))
       IN /\ sends' = [sends EXCEPT ![s].nfinished = n, ![s].outer = outer]
          /\ ready' = IF sends[s].outer = "pending" /\ outer # "pending"
                      THEN Append(Tail(ready), Handle("wake_send", "", 0, 0, s))
                      ELSE Tail(ready)
    /\ UNCHANGED <<control, tasks, tracked, runs, listeners, propValue, events, invoked, writes>>
    /\ UNCHANGED <<destinations, view, viewLog>>
    /\ UNCHANGED otherThanOutput

\* send() resumes: it returns, or raises the exception of the gathered future.
WakeSend ==
    /\ control = "loop" /\ ready # <<>> /\ Head(ready).k = "wake_send"
    /\ sends' = [sends EXCEPT ![Head(ready).r].state =
                    IF sends[Head(ready).r].outer = "result" THEN "returned" ELSE "raised"]
    /\ ready' = Tail(ready)
    /\ control' = "main"
    /\ UNCHANGED <<tasks, tracked, runs, listeners, propValue, events, invoked, writes>>
    /\ UNCHANGED <<destinations, view, viewLog>>
    /\ UNCHANGED otherThanOutput

NextOutput ==
    \/ \E dest \in Dests : AddDestination(dest)
    \/ \E dest \in Dests : RemoveDestination(dest)
    \/ \E v \in Values : Send(v)
    \/ \E outcome \in {"done", "failed", "suspended"} : ReceiveStep(outcome)
    \/ \E t \in 1..Len(tasks) : WakeReceive(t)
    \/ SendGatherCallback
    \/ WakeSend
    \/ Yield
    \/ LoopResume

\* ------------------------------------------------------ the specifications
vars == <<fvars, cvars, evars, dvars, svars, ovars, avars, lvars>>

Init ==
    /\ InitFactory /\ InitContainer /\ InitEvents
    /\ decl = NoDeclaration /\ proc = NoProcessor
    /\ InitLogs
    /\ InitOutput

InitDecl ==
    /\ InitFactory /\ InitContainer /\ InitEvents /\ InitDeclaration /\ InitLogs
    /\ InitOutput

Spec == Init /\ [][Next]_vars

SpecContainer == Init /\ [][NextContainer]_vars

SpecEvents == Init /\ [][NextEvents]_vars

SpecProperty == Init /\ [][NextProperty]_vars

SpecDecl == InitDecl /\ [][NextDeclaration]_vars

SpecReactive == Init /\ [][NextReactive]_vars

SpecInject == Init /\ [][NextInject]_vars

SpecOutput == Init /\ [][NextOutput]_vars

SpecView == Init /\ [][NextView]_vars

SpecApp == Init /\ [][NextApp]_vars

SpecSource == Init /\ [][NextSource]_vars

SpecDrain == Init /\ [][NextDrain]_vars

SpecRun == Init /\ [][NextRun]_vars

\* The loop resumes a run() whose gathered future is done; the dispatcher's
\* tracked tasks complete, so its run() returns; the run() of a component that
\* has been stopped returns.
FairRun ==
    /\ WF_vars(AppRunComponents)
    /\ WF_vars(AppRunReturns)
    /\ WF_vars(AppDrainReturns)
    /\ \A k \in 1..MaxAppCalls : WF_vars(StoppedRun(k) /\ AppCallEnds(k, "returned"))

SpecStop == Init /\ [][NextRun]_vars /\ FairRun

InitOrdered ==
    /\ InitFactory /\ InitContainer /\ InitEvents /\ InitOrder /\ InitLogs
    /\ InitOutput

SpecOrder == InitOrdered /\ [][NextDeclaration]_vars

\* ======================================================== the claims
IsCtor(e, id) == e.op = "ctor" /\ e.id = id

CtorRuns(id) == Cardinality({i \in 1..Len(ctorLog) : IsCtor(ctorLog[i], id)})

ExitedOk == scope = "closed" /\ lastExit.kind = "ok"

\* The named components that the injected parameters of x resolved to.
NamedDepsOf(x) ==
    {y \in 1..Len(inst) : \E p \in ParamNames : inst[x].kwargs[p].set /\ y \in Range(inst[x].kwargs[p].v)}

\* C1: in initialize(), the constructor of every named component Y that an
\* injected parameter of X resolved to has run before the constructor of X
\* starts. (A factory of Application.factory indexes only the components added
\* in its own scope, so every such Y is pending in the same call.)
C1_DependenciesConstructedFirst ==
    \A i \in 1..Len(ctorLog) :
        ctorLog[i].op = "ctor" =>
            \A y \in NamedDepsOf(ctorLog[i].id) :
                \E j \in 1..(i - 1) : IsCtor(ctorLog[j], y)

\* The first injected parameter, in add order and then signature order, that is
\* not matched by exactly one registered instance: <<component, parameter>>.
Matches(t) == typeIdx[t]

BadParams(added) ==
    {<<k, i>> \in (1..Len(added)) \X (1..1) :
        /\ i <= Len(InjectParams(inst[added[k]].cls))
        /\ Len(Matches(InjectParams(inst[added[k]].cls)[i].type.t)) # 1}

FirstBad(added) ==
    CHOOSE b \in BadParams(added) : \A o \in BadParams(added) : b[1] <= o[1]

\* C5: a singular Inject parameter of type T receives the one registered
\* instance of T when exactly one matches; initialize() fails with
\* DependencyNotFound when none matches, and with AmbiguousDependency carrying
\* every matching instance when several match.
C5_SingularInjection ==
    ExitedOk =>
        IF BadParams(lastExit.added) = {}
        THEN /\ lastExit.err \notin {"DependencyNotFound", "AmbiguousDependency"}
             /\ \A x \in Range(lastExit.added) :
                  \A i \in 1..Len(InjectParams(inst[x].cls)) :
                     LET p == InjectParams(inst[x].cls)[i]
                     IN inst[x].kwargs[p.name] = One(Matches(p.type.t)[1])
        ELSE LET b == FirstBad(lastExit.added)
                 t == InjectParams(inst[lastExit.added[b[1]]].cls)[b[2]].type.t
             IN IF Len(Matches(t)) = 0
                THEN lastExit.err = "DependencyNotFound" /\ lastExit.errType = t
                ELSE /\ lastExit.err = "AmbiguousDependency"
                     /\ lastExit.errType = t
                     /\ lastExit.candidates = Matches(t)

\* The parts of C5 that the code does satisfy: the two failures, and the
\* injection of every instance that is truthy.
C5_ExceptFalsyInstances ==
    ExitedOk =>
        IF BadParams(lastExit.added) = {}
        THEN /\ lastExit.err \notin {"DependencyNotFound", "AmbiguousDependency"}
             /\ \A x \in Range(lastExit.added) :
                  \A i \in 1..Len(InjectParams(inst[x].cls)) :
                     LET p == InjectParams(inst[x].cls)[i]
                         m == One(Matches(p.type.t)[1])
                     IN inst[x].kwargs[p.name] = IF Truthy(m, Len(scopeBase)) THEN m ELSE Absent
        ELSE LET b == FirstBad(lastExit.added)
                 t == InjectParams(inst[lastExit.added[b[1]]].cls)[b[2]].type.t
             IN IF Len(Matches(t)) = 0
                THEN lastExit.err = "DependencyNotFound" /\ lastExit.errType = t
                ELSE /\ lastExit.err = "AmbiguousDependency"
                     /\ lastExit.errType = t
                     /\ lastExit.candidates = Matches(t)

\* C6: when the scope exits because of an error, initialize() is not run: no
\* component added in the scope has been constructed, the container is what it
\* was when the scope was entered, and the components are still pending.
C6_ErrorExitRunsNothing ==
    (scope = "closed" /\ lastExit.kind = "error") =>
        /\ container = scopeBase
        /\ toInit = lastExit.added
        /\ \A x \in Range(lastExit.added) : CtorRuns(x) = 0 /\ inst[x].kwargs = NoKwargs

C6_Witness ==
    /\ scope = "closed" /\ lastExit.kind = "error"
    /\ Len(lastExit.added) >= 2
    /\ Len(scopeBase) >= 1

\* C7: when the scope exits without an error (initialize() included), every
\* component added in the scope has been constructed exactly once, is
\* registered in the container under its name, and nothing is left pending.
C7_SuccessfulExitBuildsAll ==
    (ExitedOk /\ lastExit.err = "none") =>
        /\ toInit = <<>>
        /\ \A x \in Range(lastExit.added) :
              /\ CtorRuns(x) = 1
              /\ inst[x].name \in ContainerNames(container)
              /\ container[ContainerGet(container, inst[x].name)].id = x

\* C8: add() of a name already present fails and leaves the container as it
\* was; every name maps to the first instance added under it.
FirstAdded(name) ==
    cAddLog[CHOOSE i \in 1..Len(cAddLog) :
                /\ cAddLog[i].name = name
                /\ \A j \in 1..(i - 1) : cAddLog[j].name # name].id

C8_DuplicateAddRejected ==
    /\ cAddLog # <<>> =>
          IF Last(cAddLog).name \in ContainerNames(cPrev)
          THEN Last(cAddLog).err = "KeyError" /\ container = cPrev
          ELSE /\ Last(cAddLog).err = "none"
               /\ container = Append(cPrev, [name |-> Last(cAddLog).name, id |-> Last(cAddLog).id])
    /\ ContainerNames(container) = {cAddLog[i].name : i \in 1..Len(cAddLog)}
    /\ Len(container) = Cardinality(ContainerNames(container))
    /\ \A n \in ContainerNames(container) :
          container[ContainerGet(container, n)].id = FirstAdded(n)

C8_Witness ==
    /\ Len(cAddLog) >= 3
    /\ \E i \in 1..(Len(cAddLog) - 1) : cAddLog[i].err = "KeyError"
    /\ Last(cAddLog).err = "none"
    /\ Len(container) >= 2

\* ---------------------------------------------------------------- events
Call(l, e) == [l |-> l, e |-> e]

\* The synchronous listeners of a listener list, as calls with event e.
RECURSIVE SyncCallsOf(_, _)
SyncCallsOf(ls, e) ==
    IF ls = <<>> THEN <<>>
    ELSE (IF IsCoroutineFunction(Head(ls)) THEN <<>> ELSE <<Call(Head(ls), e)>>)
         \o SyncCallsOf(Tail(ls), e)

\* Every call of a synchronous listener that the dispatches so far ask for, in
\* dispatch order and, within a dispatch, registration order.
RECURSIVE SyncScheduledFrom(_)
SyncScheduledFrom(e) ==
    IF e > Len(events) THEN <<>>
    ELSE SyncCallsOf(events[e].listeners, e) \o SyncScheduledFrom(e + 1)

SyncScheduled == SyncScheduledFrom(1)

RECURSIVE SyncInvokedOf(_)
SyncInvokedOf(log) ==
    IF log = <<>> THEN <<>>
    ELSE (IF IsCoroutineFunction(Head(log).l) THEN <<>> ELSE <<Head(log)>>)
         \o SyncInvokedOf(Tail(log))

RECURSIVE SyncQueuedOf(_)
SyncQueuedOf(q) ==
    IF q = <<>> THEN <<>>
    ELSE (IF Head(q).k = "call" THEN <<Call(Head(q).l, Head(q).e)>> ELSE <<>>)
         \o SyncQueuedOf(Tail(q))

\* C2 as claimed: once dispatch() has returned, every synchronous listener of
\* its list has been invoked with the event.
C2_SyncInvokedWhenDispatchReturns ==
    \A e \in 1..Len(events) :
        \A c \in Range(SyncCallsOf(events[e].listeners, e)) : c \in Range(invoked)

\* C2 as amended: dispatch() only queues the synchronous listeners on the loop
\* (call_soon), in registration order; the loop invokes them first in, first
\* out, so they observe the events in dispatch order and, within an event, in
\* registration order: the calls made so far followed by the calls still
\* queued are exactly the calls asked for, in order.
C2_SyncListenersQueuedInOrder ==
    SyncInvokedOf(invoked) \o SyncQueuedOf(ready) = SyncScheduled

C2_Witness ==
    /\ Len(events) = 2
    /\ \A e \in 1..2 : Len(SyncCallsOf(events[e].listeners, e)) = 2
    /\ events[1].listeners # events[2].listeners
    /\ Len(SyncInvokedOf(invoked)) = 3
    /\ Len(SyncQueuedOf(ready)) = 1

\* C3: a task created by dispatch() is tracked until it has completed, and a
\* run() call returns only when every task that was tracked when it was called
\* has completed.
C3_TasksTrackedUntilDrained ==
    /\ \A t \in 1..Len(tasks) : ~IsFinished(t) => Count(tracked, t) = 1
    /\ \A r \in 1..Len(runs) :
          runs[r].state = "returned" => \A t \in Range(runs[r].snap) : IsFinished(t)

C3_Witness ==
    \E r \in 1..Len(runs) :
        /\ runs[r].state = "returned"
        /\ Len(runs[r].snap) = 2
        /\ \E t \in Range(runs[r].snap) : tasks[t].steps = 2
        /\ Len(events) = 2

\* The notifications of listener l for event e: calls made, calls queued, and
\* tasks not yet started.
Notifications(l, e) ==
    Count(invoked, Call(l, e))
    + Cardinality({i \in 1..Len(ready) : ready[i].k = "call" /\ ready[i].l = l /\ ready[i].e = e})
    + Cardinality({t \in 1..Len(tasks) : tasks[t].l = l /\ tasks[t].e = e /\ tasks[t].steps = 0})

NestedLocations ==
    {l \in (1..Len(decl.heap)) \X Range(FieldKinds) \X (1..Len(decl.heap)) :
        /\ l[3] <= Len(decl.heap[l[1]].fields[l[2]].vals)
        /\ decl.heap[l[1]].fields[l[2]].vals[l[3]].t = "schema"}

ChildAt(l) == decl.heap[l[1]].fields[l[2]].vals[l[3]].id

OwnerOf(id) ==
    IF \E l \in NestedLocations : ChildAt(l) = id
    THEN (CHOOSE l \in NestedLocations : ChildAt(l) = id)[1]
    ELSE 0

\* The dotted chain of names from the top-level component down to a schema.
RECURSIVE DottedName(_)
DottedName(id) ==
    IF OwnerOf(id) = 0 THEN decl.heap[id].name
    ELSE DottedName(OwnerOf(id)) \o "." \o decl.heap[id].name

Processed == proc.constructed /\ proc.err = "none"

Built ==
    /\ Processed /\ proc.created /\ proc.createErr = "none"
    /\ lastExit.kind = "ok" /\ lastExit.err = "none"

Component(name) == container[ContainerGet(container, name)].id

\* After the processor has run, every nested schema is a top-level entry
\* under its dotted name, and until the build a Reference to that name sits
\* where the schema was.
NestedFlattened ==
    Processed =>
        \A l \in NestedLocations :
            LET c == ChildAt(l)
                n == DottedName(c)
            IN /\ proc.heap[c].name = n
               /\ c \in Range(proc.components)
               /\ n \in SchemaNames(proc) /\ SchemaId(proc, n) = c
               /\ ~proc.created =>
                    proc.heap[l[1]].fields[l[2]].vals[l[3]] = ReferenceOf(n)

\* The constructor of instance y was called with instance x among its
\* positional or keyword arguments.
CtorReceived(y, x) ==
    \E i \in 1..Len(ctorLog) :
        /\ IsCtor(ctorLog[i], y)
        /\ InstanceValue(x) \in Range(ctorLog[i].args) \cup Range(ctorLog[i].kwargs)

NestedRegistered(l) ==
    /\ DottedName(ChildAt(l)) \in ContainerNames(container)
    /\ DottedName(l[1]) \in ContainerNames(container)
    /\ inst[Component(DottedName(ChildAt(l)))].name = DottedName(ChildAt(l))

\* C9 as stated: a schema nested at any depth in args, kwargs or props becomes
\* a top-level entry under its dotted name with a Reference to that name left
\* in its place, and after the build the container holds the nested component
\* under the dotted name and the constructor of the parent received it.
C9_ParentConstructorReceivesNested ==
    /\ NestedFlattened
    /\ Built =>
        \A l \in NestedLocations :
            /\ NestedRegistered(l)
            /\ CtorReceived(Component(DottedName(l[1])), Component(DottedName(ChildAt(l))))

\* C9 amended: as above, but after the build the parent was added to the
\* factory with the nested instance at the original place; its constructor
\* receives the instance when the place is in args or kwargs, and does not
\* when it is in props.
C9_NestedFlattenedAndBuilt ==
    /\ NestedFlattened
    /\ Built =>
        \A l \in NestedLocations :
            LET x == Component(DottedName(ChildAt(l)))
                y == Component(DottedName(l[1]))
            IN /\ NestedRegistered(l)
               /\ inst[y].fields[l[2]].vals[l[3]] = InstanceValue(x)
               /\ CtorRuns(y) = 1
               /\ CtorReceived(y, x) = (l[2] \in {"args", "kwargs"})

\* A build of a declaration with a schema nested in a schema nested in the
\* props of a top-level component, inside a list.
C9_Witness ==
    /\ Built
    /\ \E l \in NestedLocations :
        /\ OwnerOf(l[1]) # 0
        /\ l[2] = "props"
        /\ decl.heap[l[1]].fields[l[2]].wrap = "list"
        /\ Len(container) = 3

\* The names of the schema set of the declaration, nested schemas included.
FlattenedNames == {DottedName(id) : id \in 1..Len(decl.heap)}

ReferenceLocations ==
    {l \in (1..Len(decl.heap)) \X Range(FieldKinds) \X (1..Len(decl.heap)) :
        /\ l[3] <= Len(decl.heap[l[1]].fields[l[2]].vals)
        /\ decl.heap[l[1]].fields[l[2]].vals[l[3]].t = "ref"}

AbsentReferences ==
    {l \in ReferenceLocations :
        decl.heap[l[1]].fields[l[2]].vals[l[3]].ref \notin FlattenedNames}

DuplicateNames ==
    \E i, j \in 1..Len(decl.heap) : i # j /\ DottedName(i) = DottedName(j)

\* C10 as stated: a Reference to a name absent from the schema set makes the
\* construction of the processor fail with the unknown-reference error,
\* wherever the reference sits.
C10_AbsentReferenceIsUnknownReference ==
    (proc.constructed /\ AbsentReferences # {}) => proc.err = "UnknownReference"

\* C10 amended: such a Reference makes the construction fail; the error is
\* the unknown-reference error at the place of the reference, whichever of
\* args, kwargs or props holds it, directly or in a list or dict, unless a
\* duplicate component name is reported first.
C10_AbsentReferenceFailsConstruction ==
    (proc.constructed /\ AbsentReferences # {}) =>
        \/ /\ proc.err = "UnknownReference"
           /\ \E l \in AbsentReferences :
                proc.errLoc = [owner |-> DottedName(l[1]), kind |-> l[2], idx |-> l[3],
                               len |-> LocLen(decl.heap[l[1]].fields[l[2]].wrap)]
        \/ proc.err = "DuplicateName" /\ DuplicateNames

\* The unknown reference sits in a dict in the kwargs of a nested schema.
C10_Witness ==
    /\ proc.constructed /\ proc.err = "UnknownReference"
    /\ \E l \in AbsentReferences :
        /\ OwnerOf(l[1]) # 0
        /\ l[2] = "kwargs"
        /\ decl.heap[l[1]].fields[l[2]].wrap = "dict"
        /\ proc.errLoc.owner = DottedName(l[1])

\* The places where a Reference is the entry of props under the name of a
\* reflected field of the owner's class.
ReactiveReferences ==
    {l \in ReferenceLocations :
        /\ l[2] = "props"
        /\ decl.heap[l[1]].fields.props.wrap = "direct"
        /\ GetProp(decl.heap[l[1]].cls, decl.heap[l[1]].fields.props.keys[l[3]]) # NoProp}

ReferenceAt(l) == decl.heap[l[1]].fields[l[2]].vals[l[3]]

ExpectedField(l) == GetProp(decl.heap[l[1]].cls, decl.heap[l[1]].fields.props.keys[l[3]])

TargetOf(l) == CHOOSE id \in 1..Len(decl.heap) : DottedName(id) = ReferenceAt(l).ref

SelectedField(l) == GetProp(decl.heap[TargetOf(l)].cls, ReferenceAt(l).prop)

\* The element type e is a supertype of the element type a.
ElementSupertype(e, a) == e.elem = a.elem /\ (e.optional \/ ~a.optional)

\* The declared element type of the field is a supertype of what the
\* reference provides: the class of the referred component, or the element
\* type of its selected field.
Compatible(l) ==
    IF ReferenceAt(l).prop = ""
    THEN ExpectedField(l).elem \in Range(Mro(decl.heap[TargetOf(l)].cls))
    ELSE SelectedField(l) # NoProp /\ ElementSupertype(ExpectedField(l), SelectedField(l))

\* C11: when every Reference of the declaration names a declared component,
\* the processor accepts the References placed in props under a reactive
\* field exactly when each one provides a subtype of the field's declared
\* element type, and fails with the reference-type-mismatch validation error
\* otherwise.
C11_ReferenceAcceptedIffElementSupertype ==
    (proc.constructed /\ ReactiveReferences # {} /\ AbsentReferences = {} /\ ~DuplicateNames) =>
        proc.err = IF \A l \in ReactiveReferences : Compatible(l)
                   THEN "none" ELSE "TypeMismatch"

\* The classes all of whose reflected fields are properties without the
\* Input marker.
PlainPropertyClasses ==
    {cls \in ReactiveClasses :
        \A i \in 1..Len(ReflectionProps(cls)) :
            /\ ReflectionProps(cls)[i].origin = "Property"
            /\ ReflectionProps(cls)[i].default # "Input"}

\* Every property left without an entry has a class-level default or an
\* Optional element type.
MissingAreDefaulted(cls, props) ==
    \A i \in 1..Len(ReflectionProps(cls)) :
        \/ HasKey(props, ReflectionProps(cls)[i].name)
        \/ ReflectionProps(cls)[i].default = "value"
        \/ ReflectionProps(cls)[i].optional

\* C12: a ComponentSchema is accepted when every property left without an
\* entry in props has a class-level default or an Optional element type and
\* is rejected for a missing value otherwise, and factory.add() with the same
\* class and props decides the same way.
C12_SchemaAndFactoryAgreeOnMissing ==
    /\ \A k \in 1..Len(schemaLog) :
          schemaLog[k].cls \in PlainPropertyClasses =>
             schemaLog[k].err = IF MissingAreDefaulted(schemaLog[k].cls, schemaLog[k].props)
                                THEN "none" ELSE "MissingDefault"
    /\ \A k \in 1..Len(schemaLog), j \in 1..Len(addLog) :
          (/\ schemaLog[k].cls \in PlainPropertyClasses
           /\ schemaLog[k].cls = addLog[j].cls
           /\ schemaLog[k].props = addLog[j].props) =>
             (schemaLog[k].err = "none") = (addLog[j].err = "none")

\* The reflected fields of the class that carry the Input marker and have no
\* entry in props.
UnwiredInputs(cls, props) ==
    {i \in 1..Len(ReflectionProps(cls)) :
        /\ ReflectionProps(cls)[i].default = "Input"
        /\ ~HasKey(props, ReflectionProps(cls)[i].name)}

ValidationErrors == {"MissingDefault", "MissingInput", "MissingInputEvent"}

\* C13: constructing a ComponentSchema for a class with a property or event
\* marked Input fails with a validation error whenever props has no entry for
\* that field, add() refuses the same class and props, and no component
\* exists that was made with such a field unwired.
C13_UnwiredInputRejected ==
    /\ \A k \in 1..Len(schemaLog) :
          UnwiredInputs(schemaLog[k].cls, schemaLog[k].props) # {} =>
             schemaLog[k].err \in ValidationErrors
    /\ \A j \in 1..Len(addLog) :
          UnwiredInputs(addLog[j].cls, addLog[j].props) # {} =>
             addLog[j].err = "MissingValue" /\ addLog[j].id = 0
    /\ \A x \in 1..Len(inst) : UnwiredInputs(inst[x].cls, inst[x].fields.props) = {}

\* An Actuator without its input event and a ThresholdChecker without its
\* input property were both refused as schemas, and add() refused the
\* Actuator too: nothing was created.
C13_Witness ==
    /\ \E k \in 1..Len(schemaLog) :
          /\ schemaLog[k].cls = "Actuator"
          /\ schemaLog[k].err = "MissingInputEvent"
    /\ \E k \in 1..Len(schemaLog) :
          /\ schemaLog[k].cls = "ThresholdChecker"
          /\ HasKey(schemaLog[k].props, "threshold")
          /\ schemaLog[k].err = "MissingInput"
    /\ \E j \in 1..Len(addLog) :
          addLog[j].cls = "Actuator" /\ addLog[j].err = "MissingValue"
    /\ decl.components = <<>>
    /\ inst = <<>>

\* The components added in the scope that has exited, by class.
AddedOf(cls) == {x \in Range(lastExit.added) : inst[x].cls = cls}

\* C14: a request for list[T] never makes initialize() fail with
\* DependencyNotFound: with no registered instance of T the collection is
\* empty, with k of them it holds exactly those k.
C14_CollectionRequestNeverMissing ==
    ExitedOk =>
        /\ ~(lastExit.err = "DependencyNotFound" /\ lastExit.errType = "list[CC]")
        /\ lastExit.err = "none" =>
              \A x \in AddedOf("CList") : inst[x].kwargs["items"].v = typeIdx["CC"]

\* C15: a request for Optional[T] with no registered instance of T does not
\* make initialize() fail: the parameter is left uninjected and the scope
\* exits without a dependency error for it.
C15_OptionalRequestNeverMissing ==
    ExitedOk =>
        /\ ~(lastExit.err = "DependencyNotFound"
              /\ lastExit.errType = "Union[CC, NoneType]")
        /\ (lastExit.err = "none" /\ typeIdx["CC"] = <<>>) =>
              \A x \in AddedOf("COpt") : inst[x].kwargs["c"] = Absent

\* The first member type, in declaration order, that has a registered instance.
RECURSIVE FirstRegistered(_)
FirstRegistered(members) ==
    IF members = <<>> THEN <<>>
    ELSE IF typeIdx[members[1]] # <<>> THEN typeIdx[members[1]]
    ELSE FirstRegistered(Tail(members))

\* C16: a plural request list[Union[A, B]] collects every registered instance
\* of every member type, several of one member type included, and the
\* singular request Union[A, B] takes the instance of the first member type
\* that has one.
C16_UnionCollectsAllAndTakesFirst ==
    ExitedOk =>
        /\ (typeIdx["CC"] # <<>> \/ typeIdx["Base"] # <<>>) =>
              lastExit.errType # "list[Union[CC, Base]]"
        /\ lastExit.err = "none" =>
              /\ \A x \in AddedOf("CListUnion") :
                    Range(inst[x].kwargs["xs"].v)
                        = Range(typeIdx["CC"]) \cup Range(typeIdx["Base"])
              /\ \A x \in AddedOf("CUnion") :
                    inst[x].kwargs["x"].v = SubSeq(FirstRegistered(<<"CC", "Base">>), 1, 1)

\* The injected parameters of x whose type is matched by exactly the one
\* registered component s.
SingleMatches(x, s) ==
    {k \in 1..Len(InjectParams(inst[x].cls)) :
        /\ InjectParams(inst[x].cls)[k].type.kind = "plain"
        /\ typeIdx[InjectParams(inst[x].cls)[k].type.t] = <<s>>}

\* Two dependents x1, x2 of s, all three added under different names.
SharedBy(x1, x2, s) ==
    /\ Cardinality({inst[x1].name, inst[x2].name, inst[s].name}) = 3
    /\ SingleMatches(x1, s) # {}
    /\ SingleMatches(x2, s) # {}

\* C18: when two pending components each inject a type matched by exactly one
\* registered component S, initialize() runs S's constructor exactly once and
\* before the constructor of either dependent, and both receive S itself.
C18_SharedSingletonBuiltOnceAndFirst ==
    (ExitedOk /\ lastExit.err = "none") =>
        \A x1, x2, s \in Range(lastExit.added) :
            SharedBy(x1, x2, s) =>
                /\ CtorRuns(s) = 1
                /\ \A x \in {x1, x2} :
                      /\ \A k \in SingleMatches(x, s) :
                            inst[x].kwargs[InjectParams(inst[x].cls)[k].name] = One(s)
                      /\ \A i \in 1..Len(ctorLog) :
                            IsCtor(ctorLog[i], x) =>
                                \E j \in 1..(i - 1) : IsCtor(ctorLog[j], s)

\* The pairs of components of the exited scope that inject each other.
Cycles ==
    {<<a, b>> \in Range(lastExit.added) \X Range(lastExit.added) :
        a # b /\ b \in NamedDepsOf(a) /\ a \in NamedDepsOf(b)}

\* Every injected parameter of the scope was resolved, so that initialize()
\* went on to order the components.
Resolved == lastExit.err \notin {"DependencyNotFound", "AmbiguousDependency"}

\* C19 as stated: with a true cycle among the pending components the ordering
\* traversal of initialize() recurses without end.
C19_CycleNeverTerminates ==
    (ExitedOk /\ Resolved /\ Cycles # {}) => lastExit.err = "RecursionError"

\* C19: a true cycle among the pending components is not detected, and the
\* ordering traversal terminates all the same: initialize() goes on to the
\* constructors and runs that of each component of the cycle at most once.
C19_CycleUndetectedTraversalEnds ==
    (ExitedOk /\ Resolved) =>
        \A c \in Cycles :
            /\ lastExit.err \in {"none", "DuplicateName"}
            /\ CtorRuns(c[1]) <= 1

C19_Witness ==
    /\ ExitedOk
    /\ lastExit.err = "none"
    /\ \E c \in Cycles : CtorRuns(c[1]) = 1 /\ CtorRuns(c[2]) = 1

\* initialize() ran the constructor of x before that of y.
CtorBefore(x, y) ==
    \A i, j \in 1..Len(ctorLog) :
        (IsCtor(ctorLog[i], x) /\ IsCtor(ctorLog[j], y)) => i < j

\* x was add()ed before y in the exited scope.
AddedBefore(x, y) ==
    \E i, j \in 1..Len(lastExit.added) :
        i < j /\ lastExit.added[i] = x /\ lastExit.added[j] = y

\* initialize() injected something into x: a named component or an anonymous
\* static instance.
Injected(x) == \E p \in ParamNames : inst[x].kwargs[p].set

\* C20 as stated: the components without a named dependency, those with only
\* anonymous static dependencies included, are constructed before every
\* component with a named dependency, in add order.
C20_NoNamedDependencyFirst ==
    (ExitedOk /\ Resolved) =>
        \A x, y \in Range(lastExit.added) :
            /\ (NamedDepsOf(x) = {} /\ NamedDepsOf(y) # {}) => CtorBefore(x, y)
            /\ (NamedDepsOf(x) = {} /\ NamedDepsOf(y) = {} /\ AddedBefore(x, y))
                    => CtorBefore(x, y)

\* C20: the components into which nothing was injected are constructed before
\* every component into which something was injected, named or static, and
\* in add order.
C20_NothingInjectedFirst ==
    (ExitedOk /\ Resolved) =>
        \A x, y \in Range(lastExit.added) :
            /\ (~Injected(x) /\ Injected(y)) => CtorBefore(x, y)
            /\ (~Injected(x) /\ ~Injected(y) /\ AddedBefore(x, y)) => CtorBefore(x, y)

C20_Witness ==
    /\ ExitedOk
    /\ lastExit.err = "none"
    /\ \E x, y, z \in Range(lastExit.added) :
          /\ ~Injected(x) /\ AddedBefore(y, x)
          /\ Injected(y) /\ NamedDepsOf(y) # {}
          /\ Injected(z) /\ NamedDepsOf(z) = {}
          /\ CtorRuns(x) = 1 /\ CtorRuns(y) = 1 /\ CtorRuns(z) = 1

\* The send() calls that have returned or raised.
Completed == {s \in 1..Len(sends) : sends[s].state \in {"returned", "raised"}}

\* C17: send(value) calls receive_input(value) on every destination and
\* returns or raises only after the receive_input of every destination has
\* completed, whether or not one of them rejected the value.
C17_SendCompletesAfterEveryDestination ==
    \A s \in Completed :
        /\ Len(sends[s].snap) = Len(sends[s].dests)
        /\ \A k \in 1..Len(sends[s].snap) :
              /\ tasks[sends[s].snap[k]].l = sends[s].dests[k]
              /\ tasks[sends[s].snap[k]].e = sends[s].value
              /\ IsFinished(sends[s].snap[k])

\* The References of the declaration as the program wrote it, with their
\* holder: <<schema, kind, entry>>.
DeclaredReferences ==
    {l \in (1..Len(decl.heap)) \X Range(FieldKinds) \X (1..Len(KeyNames)) :
        /\ l[3] <= Len(decl.heap[l[1]].fields[l[2]].vals)
        /\ decl.heap[l[1]].fields[l[2]].vals[l[3]].t = "ref"}

DeclaredAt(l) == decl.heap[l[1]].fields[l[2]].vals[l[3]]

\* The schemas of the declaration that carry the name a reference points at.
TargetsOf(l) == {i \in 1..Len(decl.heap) : decl.heap[i].name = DeclaredAt(l).ref}

\* A reference to the one component of that name, selecting a field its
\* class does not declare.
SelectsUndeclared(l) ==
    /\ DeclaredAt(l).prop # ""
    /\ Cardinality(TargetsOf(l)) = 1
    /\ \A i \in TargetsOf(l) : GetProp(decl.heap[i].cls, DeclaredAt(l).prop) = NoProp

UniqueNames ==
    \A i, j \in 1..Len(decl.heap) : decl.heap[i].name = decl.heap[j].name => i = j

ReferenceErrors == {"TypeMismatch", "UnknownReference"}

\* C21: a declaration with a Reference that selects a field the referred
\* class does not declare fails the build with a reference-type-mismatch or
\* unknown-reference validation error, in the processor or in create_with,
\* and no constructor of the build has run by then.
C21_UndeclaredFieldIsReferenceError ==
    (UniqueNames /\ \E l \in DeclaredReferences : SelectsUndeclared(l)) =>
        /\ proc.constructed => proc.err \in ReferenceErrors \cup {"none"}
        /\ proc.created =>
              /\ proc.createErr \in ReferenceErrors
              /\ \A x \in Range(lastExit.added) : CtorRuns(x) = 0

\* C22: a PropertyView is a read-only view of its property. Every read through
\* the view yields the property's value at that moment; a listener registered
\* through the view is among the listeners of every change event of the
\* property dispatched afterwards, and has been invoked for it once the loop is
\* idle; a write through the view raises InvalidMutation, leaves the property's
\* value as it was, dispatches no event and schedules no callback.
ViewOps(op) == {i \in 1..Len(viewLog) : viewLog[i].op = op}

LoopIdle == control = "main" /\ ready = <<>>

C22_ViewIsReadOnlyAndLive ==
    /\ \A i \in ViewOps("read") : viewLog[i].seen = viewLog[i].value
    /\ \A i \in ViewOps("listen") : \A e \in 1..Len(events) :
            e > viewLog[i].nevents =>
                /\ viewLog[i].l \in Range(events[e].listeners)
                /\ (LoopIdle /\ ~IsCoroutineFunction(viewLog[i].l)) =>
                        [l |-> viewLog[i].l, e |-> e] \in Range(invoked)
    /\ \A i \in ViewOps("write") :
            /\ viewLog[i].err = "InvalidMutation"
            /\ viewLog[i].after = viewLog[i].value
            /\ viewLog[i].eventsAfter = viewLog[i].nevents
            /\ viewLog[i].readyAfter = viewLog[i].nready

\* The property changed after the view was made, a read through the view saw
\* the new value, a listener registered through the view was invoked for a
\* later change, and a write through the view was refused.
C22_Witness ==
    /\ view.made
    /\ \E i \in ViewOps("read") : viewLog[i].seen # view.initial
    /\ \E i \in ViewOps("listen") : \E e \in 1..Len(events) :
            /\ e > viewLog[i].nevents
            /\ [l |-> viewLog[i].l, e |-> e] \in Range(invoked)
    /\ \E i \in ViewOps("write") :
            /\ viewLog[i].seen # viewLog[i].value
            /\ viewLog[i].nwrites > 0
            /\ listeners # <<>>

\* Every schema of the flattened list has a name of its own.
FlattenedUnique ==
    \A i, j \in 1..Len(proc.components) :
        proc.heap[proc.components[i]].name = proc.heap[proc.components[j]].name => i = j

ReplacedLocations == ReferenceLocations \cup NestedLocations

NeededAt(l) ==
    IF l \in NestedLocations THEN ChildAt(l)
    ELSE CHOOSE j \in 1..Len(decl.heap) :
            DottedName(j) = decl.heap[l[1]].fields[l[2]].vals[l[3]].ref

Needs(i) == {NeededAt(l) : l \in {m \in ReplacedLocations : m[1] = i}}

\* The schemas reached from the set s along at most n needs.
RECURSIVE NeededWithin(_, _)
NeededWithin(s, n) ==
    IF n = 0 THEN {}
    ELSE LET next == UNION {Needs(i) : i \in s}
         IN next \cup NeededWithin(next, n - 1)

\* The references of the declaration, nested definitions included, form a
\* cycle: a schema needs itself.
ReferenceCycle ==
    \E i \in 1..Len(decl.heap) : i \in NeededWithin({i}, Len(decl.heap))

\* The place of a schema's component among those added to the factory, 0
\* when it has not been added.
AddedAt(i) ==
    IF \E k \in 1..Len(inst) : inst[k].name = DottedName(i)
    THEN CHOOSE k \in 1..Len(inst) : inst[k].name = DottedName(i)
    ELSE 0

\* A create_with that ran on the processor (and was not refused as a reuse).
Created == Processed /\ proc.created /\ proc.createErr # "ValueError"

AddedOnce(i) == Cardinality({k \in 1..Len(inst) : inst[k].name = DottedName(i)}) = 1

\* The component of schema l[1] was added after the one its place l needs,
\* with that instance at the place.
ResolvedBeforeAdded(l) ==
    /\ AddedAt(NeededAt(l)) # 0
    /\ AddedAt(NeededAt(l)) < AddedAt(l[1])
    /\ inst[AddedAt(l[1])].fields[l[2]].vals[l[3]] = InstanceValue(AddedAt(NeededAt(l)))

\* C24: create_with adds every flattened schema exactly once, each after every
\* component one of its References points at, with the created instance in
\* the place of the Reference.
C24_EveryTargetAddedFirst ==
    Created =>
        /\ \A i \in 1..Len(decl.heap) : AddedOnce(i)
        /\ \A l \in ReplacedLocations : ResolvedBeforeAdded(l)

\* What create_with does keep: it adds no schema twice, and every component
\* it adds is added after every component its References point at, with the
\* created instance in the place of the Reference; it adds every flattened
\* schema when the references form no cycle, and raises KeyError when they do.
TargetsFirstUnlessCycle ==
    Created =>
        /\ \A i \in 1..Len(decl.heap) : AddedAt(i) # 0 => AddedOnce(i)
        /\ \A l \in ReplacedLocations : AddedAt(l[1]) # 0 => ResolvedBeforeAdded(l)
        /\ ~ReferenceCycle =>
                /\ proc.createErr = "none"
                /\ \A i \in 1..Len(decl.heap) : AddedOnce(i)
        /\ ReferenceCycle => proc.createErr = "KeyError"

\* A step of remove_listener: the list of registered listeners gets shorter.
ListenerRemoved == Len(listeners') < Len(listeners)

\* What every step keeps of dispatch: an event is handed the listeners
\* registered when it is dispatched, only these are invoked for it, and once
\* the loop is idle each has been invoked as often as it was registered.
DispatchedToRegistered ==
    /\ Len(events') > Len(events) => events'[Len(events')].listeners = listeners
    /\ \A i \in 1..Len(invoked') :
            invoked'[i].l \in Range(events'[invoked'[i].e].listeners)
    /\ (control' = "main" /\ ready' = <<>>) =>
            \A e \in 1..Len(events') : \A l \in Listeners :
                Count(invoked', [l |-> l, e |-> e]) = Count(events'[e].listeners, l)

\* C25 (as stated): remove_listener(l) leaves l unregistered and every other
\* registration in place, so that no event dispatched afterwards invokes l
\* and each invokes the listeners still registered.
C25_RemovedListenerNotInvoked ==
    [][/\ ListenerRemoved =>
            \E l \in Range(listeners) :
                /\ l \notin Range(listeners')
                /\ \A k \in Listeners \ {l} : Count(listeners', k) = Count(listeners, k)
       /\ DispatchedToRegistered]_vars

\* C25 (amended): remove_listener(l) takes away one registration of l and
\* leaves every other registration in place; an event dispatched afterwards
\* invokes l once for each registration it has left, none when l was removed
\* as often as it was added, and invokes the listeners still registered.
C25_RemovalDropsOneRegistration ==
    [][/\ ListenerRemoved =>
            \E l \in Range(listeners) :
                /\ Count(listeners', l) = Count(listeners, l) - 1
                /\ \A k \in Listeners \ {l} : Count(listeners', k) = Count(listeners, k)
       /\ DispatchedToRegistered]_vars

\* A listener was removed, an event dispatched afterwards was not handed to
\* it, and a listener still registered has been invoked for that event.
C25_Witness ==
    \E e \in 1..Len(events) : \E f \in 1..(e - 1) : \E l, k \in Listeners :
        /\ l \in Range(events[f].listeners)
        /\ l \notin Range(events[e].listeners)
        /\ k \in Range(events[e].listeners)
        /\ [l |-> k, e |-> e] \in Range(invoked)

\* The initialize() pass that had the component among its pending ones, 0
\* when no pass has had it yet.
PassOf(id) ==
    IF \E b \in 1..Len(app.builds) : id \in Range(app.builds[b].added)
    THEN CHOOSE b \in 1..Len(app.builds) : id \in Range(app.builds[b].added)
    ELSE 0

\* When the application made the call c, the constructor of x had returned
\* and x had been added to the container.
RegisteredAt(c, x) ==
    \E j \in 1..c.nlog : ctorLog[j].op = "reg" /\ ctorLog[j].id = x

\* C26 (as stated): every call of setup(), run() or stop() by the Application
\* is on a component whose initialize() pass had completed before the call:
\* the constructors of all components of that pass had returned.
C26_InvokedAfterPassCompleted ==
    \A k \in 1..Len(app.calls) :
        /\ PassOf(app.calls[k].id) # 0
        /\ PassOf(app.calls[k].id) <= app.calls[k].nbuilds
        /\ app.builds[PassOf(app.calls[k].id)].err = "none"
        /\ \A x \in Range(app.builds[PassOf(app.calls[k].id)].added) :
                RegisteredAt(app.calls[k], x)

\* C26 (amended): every call of setup(), run() or stop() by the Application is
\* on a component whose constructor had returned and that had been added to
\* the container, after its initialize() pass had ended; the constructors of
\* all components of that pass had returned unless the pass ended with an
\* error, which leaves the components constructed before the error in the
\* container.
C26_InvokedAfterOwnConstructor ==
    \A k \in 1..Len(app.calls) :
        /\ PassOf(app.calls[k].id) # 0
        /\ PassOf(app.calls[k].id) <= app.calls[k].nbuilds
        /\ RegisteredAt(app.calls[k], app.calls[k].id)
        /\ app.builds[PassOf(app.calls[k].id)].err = "none" =>
                \A x \in Range(app.builds[PassOf(app.calls[k].id)].added) :
                    RegisteredAt(app.calls[k], x)

\* The application called setup() and then run() on a component of a pass
\* that the constructor of a later component ended.
C26_Witness ==
    \E k \in 1..Len(app.calls) : \E j \in 1..(k - 1) :
        /\ app.calls[k].op = "run" /\ app.calls[j].op = "setup"
        /\ app.calls[j].id = app.calls[k].id
        /\ app.builds[PassOf(app.calls[k].id)].err = "ConstructorError"
        /\ \E x \in Range(app.builds[PassOf(app.calls[k].id)].added) : CtorRuns(x) = 0

\* C27: an initialize() that raises DependencyNotFound or AmbiguousDependency
\* has run the constructor of no pending component and has added nothing to
\* the container, also when components without any dependency come before
\* the one that cannot be resolved.
DependencyErrors == {"DependencyNotFound", "AmbiguousDependency"}

C27_UnresolvedDependencyBuildsNothing ==
    (ExitedOk /\ lastExit.err \in DependencyErrors) =>
        /\ container = scopeBase
        /\ toInit = lastExit.added
        /\ \A x \in Range(lastExit.added) : CtorRuns(x) = 0

\* initialize() raised for the dependency of a component that was added after
\* a component without injected parameters, with a component of an earlier
\* scope in the container.
C27_Witness ==
    /\ ExitedOk /\ lastExit.err \in DependencyErrors
    /\ Len(lastExit.added) >= 2
    /\ InjectParams(inst[lastExit.added[1]].cls) = <<>>
    /\ lastExit.errName # inst[lastExit.added[1]].name
    /\ scopeBase # <<>>

\* The place of the component whose constructor raised in the order
\* initialize() computed.
FailedAt == CHOOSE k \in 1..Len(lastExit.order) : inst[lastExit.order[k]].name = lastExit.errName

IsRegistered(x) ==
    /\ inst[x].name \in ContainerNames(container)
    /\ container[ContainerGet(container, inst[x].name)].id = x

\* C28: when the constructor of the k-th component of the computed order
\* raises in initialize(), the k-1 components before it have been constructed
\* and are registered in the container, the k-th is not registered, and the
\* constructor of no later component has run.
C28_ConstructorFailureKeepsEarlier ==
    (ExitedOk /\ lastExit.err = "ConstructorError") =>
        /\ ConstructorRaises(inst[lastExit.order[FailedAt]].cls)
        /\ CtorRuns(lastExit.order[FailedAt]) = 1
        /\ ~IsRegistered(lastExit.order[FailedAt])
        /\ \A i \in 1..(FailedAt - 1) :
                CtorRuns(lastExit.order[i]) = 1 /\ IsRegistered(lastExit.order[i])
        /\ \A i \in (FailedAt + 1)..Len(lastExit.order) :
                CtorRuns(lastExit.order[i]) = 0 /\ ~IsRegistered(lastExit.order[i])
        /\ Len(container) = Len(scopeBase) + FailedAt - 1

\* The constructor of the second of three components raised.
C28_Witness ==
    /\ ExitedOk /\ lastExit.err = "ConstructorError"
    /\ Len(lastExit.order) = 3
    /\ FailedAt = 2

\* C29: in the log of initialize(), the registration of a component comes
\* right after the start of its own constructor, so that when a constructor
\* starts, every component constructed before it is registered and neither
\* itself nor a later one is.
C29_RegisteredRightAfterConstructor ==
    /\ \A j \in 1..Len(ctorLog) :
            ctorLog[j].op = "reg" =>
                j > 1 /\ ctorLog[j - 1].op = "ctor" /\ ctorLog[j - 1].id = ctorLog[j].id
    /\ \A i \in 1..Len(ctorLog) :
            ctorLog[i].op = "ctor" =>
                /\ \A j \in 1..(i - 1) : ctorLog[j].id # ctorLog[i].id
                /\ \A h \in 1..(i - 1) :
                        (ctorLog[h].op = "ctor" /\ IsRegistered(ctorLog[h].id)) =>
                            ctorLog[h + 1].op = "reg" /\ h + 1 < i
    /\ \A x \in 1..Len(inst) :
            IsRegistered(x) => \E j \in 1..Len(ctorLog) : ctorLog[j].op = "reg" /\ ctorLog[j].id = x

\* A pass constructed a component and the one depending on it, on top of a
\* component of an earlier pass.
C29_Witness ==
    /\ ExitedOk /\ lastExit.err = "none"
    /\ Len(lastExit.order) >= 2
    /\ scopeBase # <<>>
    /\ lastExit.order # lastExit.added
    /\ \A x \in Range(lastExit.order) : IsRegistered(x)

\* How deep a definition is nested: 0 for a top-level component.
RECURSIVE NestingOf(_)
NestingOf(id) == IF OwnerOf(id) = 0 THEN 0 ELSE NestingOf(OwnerOf(id)) + 1

ScansOf(id) == Cardinality({k \in 1..Len(proc.scans) : proc.scans[k] = id})

\* C30: the construction of a processor ends for every declaration; no
\* definition is scanned twice and, unless the construction raised, every
\* definition, top-level or nested, has been scanned exactly once; the scans
\* go pass by pass, the definitions of one nesting level before those nested
\* in them.
C30_EachDefinitionScannedOnce ==
    proc.constructed =>
        /\ \A id \in 1..Len(decl.heap) : ScansOf(id) <= 1
        /\ proc.err = "none" => \A id \in 1..Len(decl.heap) : ScansOf(id) = 1
        /\ \A i, j \in 1..Len(proc.scans) :
                i < j => NestingOf(proc.scans[i]) <= NestingOf(proc.scans[j])

\* A processor was constructed for a declaration nested two levels deep.
C30_Witness ==
    /\ Processed
    /\ \E id \in 1..Len(decl.heap) : NestingOf(id) = 2
    /\ Len(proc.scans) = Len(decl.heap)

\* The components add() has made on the factory of the current scope (of the
\* last one, when no scope is open), in add order.
ScopeAdded == IF scope = "open" THEN toInit ELSE lastExit.added

\* The instances the factory knows whose class is t or a subclass of t: the
\* static objects, then the added components.
InstancesOf(t) ==
    SelectSeq(Statics, LAMBDA s : t \in Range(Mro(StaticType(s))))
        \o SelectSeq(ScopeAdded, LAMBDA x : t \in Range(Mro(inst[x].cls)))

\* C31: the factory lists every registered instance, static object or added
\* component, exactly once under every class of the ancestry of its class and
\* under no other type; an injected parameter of type T receives only
\* instances listed under T; and add() runs no constructor: while the scope
\* is open no component added in it has been constructed.
C31_IndexedUnderAncestry ==
    /\ \A t \in Types : typeIdx[t] = InstancesOf(t)
    /\ \A x \in Range(ScopeAdded) :
          \A k \in 1..Len(InjectParams(inst[x].cls)) :
             LET p == InjectParams(inst[x].cls)[k]
             IN (inst[x].kwargs[p.name].set /\ p.type.kind = "plain") =>
                    Range(inst[x].kwargs[p.name].v) \subseteq Range(InstancesOf(p.type.t))
    /\ scope = "open" => \A x \in Range(toInit) : CtorRuns(x) = 0

\* Two components were added in a scope that follows a completed one, one of
\* them of a class with a base class: it is listed under the class, the base
\* and object, and the scope is still open.
C31_Witness ==
    /\ scope = "open"
    /\ container # <<>>
    /\ Len(toInit) = 2
    /\ \E x \in Range(toInit) : inst[x].cls = "CB"
    /\ Len(typeIdx["Base"]) = 1
    /\ Len(typeIdx["object"]) = Len(Statics) + 2
    /\ Len(typeIdx["EventDispatcher"]) = 1

\* The list s without its k-th entry.
Without(s, k) == SubSeq(s, 1, k - 1) \o SubSeq(s, k + 1, Len(s))

\* C32: the listeners of an EventSource are an ordered list with duplicates.
\* add_listener and listen append the listener whether or not it is there, and
\* listen returns the listener it was given; remove_listener of a registered
\* listener takes one occurrence away and keeps the others in order, and of a
\* listener that is not registered fails and leaves the list as it was; an
\* event is handed the list as it is, and once the loop is idle every listener
\* has been invoked for it as many times as it was registered, twice when it
\* was added twice.
C32_ListenersAreAListWithDuplicates ==
    /\ srcOp.op \in {"add", "listen"} =>
            /\ srcOp.err = "none"
            /\ listeners = Append(srcOp.before, srcOp.l)
    /\ srcOp.op = "listen" => srcOp.ret = srcOp.l
    /\ srcOp.op = "remove" =>
            IF srcOp.l \in Range(srcOp.before)
            THEN /\ srcOp.err = "none"
                 /\ \E k \in 1..Len(srcOp.before) :
                        srcOp.before[k] = srcOp.l /\ listeners = Without(srcOp.before, k)
            ELSE srcOp.err = "ValueError" /\ listeners = srcOp.before
    /\ \A e \in 1..Len(events) : \A l \in Listeners :
            /\ Count(invoked, Call(l, e)) <= Count(events[e].listeners, l)
            /\ LoopIdle => Count(invoked, Call(l, e)) = Count(events[e].listeners, l)
    /\ SyncInvokedOf(invoked) \o SyncQueuedOf(ready) = SyncScheduled

\* A listener registered twice was invoked twice for one event, one of its
\* registrations was then removed, and the removal of a listener that was
\* never registered has just failed.
C32_Witness ==
    /\ \E e \in 1..Len(events) : \E l \in Listeners :
            Count(events[e].listeners, l) = 2 /\ Count(invoked, Call(l, e)) = 2
    /\ Len(listeners) = 1
    /\ srcOp.op = "remove" /\ srcOp.err = "ValueError"
    /\ srcOp.before = listeners

\* The removals of task t that are queued on the loop: its _done_callback,
\* scheduled with call_soon when the task finished and not yet run.
QueuedRemovals(t) ==
    Cardinality({i \in 1..Len(ready) : ready[i].k = "done_cb" /\ ready[i].t = t})

\* C33 (as stated): whenever control is with the event loop, the tracked set
\* holds exactly the tasks dispatch() has scheduled that have not completed,
\* and no finished task is tracked.
C33_TrackedAreTheUnfinished ==
    control = "loop" =>
        \A t \in 1..Len(tasks) : Count(tracked, t) = IF IsFinished(t) THEN 0 ELSE 1

\* C33 (amended): the tracked set holds exactly the tasks dispatch() has
\* scheduled whose _done_callback has not run yet: every unfinished task, and
\* every finished one whose removal is still queued on the loop. A task that
\* finishes, with a result or an exception, has one removal queued; the
\* removal finds the task tracked, takes it away, and none follows.
C33_TrackedUntilDoneCallback ==
    /\ Range(tracked) \subseteq 1..Len(tasks)
    /\ \A t \in 1..Len(tasks) :
          /\ ~IsFinished(t) => QueuedRemovals(t) = 0 /\ Count(tracked, t) = 1
          /\ IsFinished(t) => QueuedRemovals(t) <= 1 /\ Count(tracked, t) = QueuedRemovals(t)

\* The loop has control, a task that raised is finished with its removal
\* still queued, and another task has finished and has been removed.
C33_Witness ==
    /\ control = "loop"
    /\ \E t, u \in 1..Len(tasks) :
          /\ tasks[t].status = "failed" /\ QueuedRemovals(t) = 1 /\ Count(tracked, t) = 1
          /\ tasks[u].status = "done" /\ QueuedRemovals(u) = 0 /\ Count(tracked, u) = 0

\* ---- Application.run() as a drain
\* The invocation of the chain listener that receives the event e has
\* completed: a plain function has run, a coroutine's task is done.
ChainCompleted(e) ==
    IF IsCoroutineFunction(chain[e])
    THEN \E t \in 1..Len(tasks) : tasks[t].e = e /\ tasks[t].status = "done"
    ELSE \E i \in 1..Len(invoked) : invoked[i].e = e

\* await Application.run() has returned after a dispatch to the chain.
DrainReturned == app.last = "returned" /\ events # <<>>

\* C34: once await Application.run() has returned, with no Runnable component
\* in the container, the invocation of every listener of the chain that the
\* dispatch made before the call triggers has completed, whatever the length
\* of the chain and whether its listeners are plain or coroutine functions.
C34_RunReturnsWhenChainCompleted ==
    DrainReturned => \A e \in 1..Len(chain) : ChainCompleted(e)

\* ---- references and the order of construction
\* The References written in args or kwargs of a schema.
ArgumentReferences == {l \in ReferenceLocations : l[2] \in {"args", "kwargs"}}

\* C35: after a build, for every Reference in the args or kwargs of a
\* component X to a component Y, initialize() ran the constructor of Y before
\* that of X, whether the factory injects something into X, into Y or not.
C35_ReferredConstructedFirst ==
    Built =>
        \A l \in ArgumentReferences :
            /\ CtorRuns(AddedAt(NeededAt(l))) = 1 /\ CtorRuns(AddedAt(l[1])) = 1
            /\ CtorBefore(AddedAt(NeededAt(l)), AddedAt(l[1]))

\* ---- references to nested components
\* The References whose target is the dotted name of a nested definition.
NestedNameReferences ==
    {l \in ReferenceLocations :
        \E id \in 1..Len(decl.heap) : OwnerOf(id) # 0 /\ DottedName(id) = ReferenceAt(l).ref}

\* C36: a Reference to the dotted name of a nested definition of the same
\* declaration is accepted by the processor, wherever the holder and the
\* definition are written, and after the build the instance of the nested
\* component is in the place of the Reference.
C36_NestedNameReferenceAccepted ==
    (proc.constructed /\ ~DuplicateNames) =>
        \A l \in NestedNameReferences :
            /\ proc.err = "none"
            /\ Built => inst[AddedAt(l[1])].fields[l[2]].vals[l[3]]
                            = InstanceValue(AddedAt(TargetOf(l)))

\* ---- the change events of one property
\* Each change event carries as previous value the value of the event before
\* it, the first one the value the property was created with (0).
PreviousChained ==
    \A k \in 1..Len(events) :
        events[k].prev = IF k = 1 THEN 0 ELSE events[k - 1].value

\* The events the listener l was invoked with, in the order of the calls.
RECURSIVE ReceivedFrom(_, _)
ReceivedFrom(l, i) ==
    IF i > Len(invoked) THEN <<>>
    ELSE (IF invoked[i].l = l THEN <<invoked[i].e>> ELSE <<>>) \o ReceivedFrom(l, i + 1)

\* The events written while l was registered, in write order: each once, or
\* each as many times as l was registered.
RECURSIVE WrittenOnceFrom(_, _)
WrittenOnceFrom(l, e) ==
    IF e > Len(events) THEN <<>>
    ELSE (IF l \in Range(events[e].listeners) THEN <<e>> ELSE <<>>) \o WrittenOnceFrom(l, e + 1)

RECURSIVE WrittenFrom(_, _)
WrittenFrom(l, e) ==
    IF e > Len(events) THEN <<>>
    ELSE [i \in 1..Count(events[e].listeners, l) |-> e] \o WrittenFrom(l, e + 1)

IsPrefix(s, t) == Len(s) <= Len(t) /\ SubSeq(t, 1, Len(s)) = s

SyncListeners == {l \in Listeners : ~IsCoroutineFunction(l)}

\* C37 (as stated): the previous value of the k-th change event is the value
\* of the (k-1)-th, the initial value for the first, and every synchronous
\* listener receives the events written while it is registered in write
\* order, each exactly once (all of them once the loop has run).
C37_EachEventOnceInWriteOrder ==
    /\ PreviousChained
    /\ \A l \in SyncListeners :
        /\ IsPrefix(ReceivedFrom(l, 1), WrittenOnceFrom(l, 1))
        /\ LoopIdle => ReceivedFrom(l, 1) = WrittenOnceFrom(l, 1)

\* C37 (amended): the previous values are chained as stated, and every
\* synchronous listener receives the events in write order, each once for
\* every registration it holds when the value is written.
C37_EachEventOncePerRegistration ==
    /\ PreviousChained
    /\ \A l \in SyncListeners :
        /\ IsPrefix(ReceivedFrom(l, 1), WrittenFrom(l, 1))
        /\ LoopIdle => ReceivedFrom(l, 1) = WrittenFrom(l, 1)

\* Two writes that change the value, heard by a listener registered twice for
\* the first and once for the second.
C37_Witness ==
    /\ LoopIdle
    /\ Len(events) = 2 /\ events[1].value # 0 /\ events[2].value # events[1].value
    /\ \E l \in SyncListeners : ReceivedFrom(l, 1) = <<1, 1, 2>>

\* ---- Application.run() and the components' coroutines
\* A step in which the application calls run() on a component.
StartsRuns ==
    \E k \in (Len(app.calls) + 1)..Len(app'.calls) : app'.calls[k].op = "run"

\* A step in which a pending Application.run() returns.
RunReturns == app.phase # "idle" /\ app'.phase = "idle" /\ app'.last = "returned"

\* The calls of op this run() gathered on the component id.
GatheredCalls(op, id) ==
    {k \in app.gathered : app.calls[k].op = op /\ app.calls[k].id = id}

\* C38: Application.run() calls run() on a component only when the setup() it
\* called on every Setup component of the container has returned, and it
\* returns only when the dispatcher's run() and the run() it called on every
\* Runnable component of the container have returned.
C38_RunsAfterSetupsReturnsAfterRuns ==
    [][/\ StartsRuns =>
            \A c \in 1..Len(container) :
                IsSetup(inst[container[c].id].cls) =>
                    \E k \in GatheredCalls("setup", container[c].id) : Ended(k, "returned")
       /\ RunReturns =>
            /\ app.drain = "returned"
            /\ \A k \in app.gathered : Ended(k, "returned")
            /\ \A c \in 1..Len(container) :
                IsRunnable(inst[container[c].id].cls) =>
                    GatheredCalls("run", container[c].id) # {}]_vars

\* run() has returned after the setup() of two components and the run() of
\* one of them.
C38_Witness ==
    /\ app.phase = "idle" /\ app.last = "returned" /\ app.drain = "returned"
    /\ Cardinality({k \in 1..Len(app.calls) :
                        app.calls[k].op = "setup" /\ Ended(k, "returned")}) = 2
    /\ \E k \in app.gathered : app.calls[k].op = "run" /\ Ended(k, "returned")

\* ---- Application.stop()
\* A step of Application.stop(): the application calls stop() on components.
StopStep ==
    \E k \in (Len(app.calls) + 1)..Len(app'.calls) : app'.calls[k].op = "stop"

\* stop() calls stop() once on every Runnable component of the container and
\* on nothing else, and leaves a pending run(), the coroutines it awaits and
\* the dispatcher's drain as they are.
StopForcesNothing ==
    StopStep =>
        /\ SubSeq(app'.calls, 1, Len(app.calls)) = app.calls
        /\ \A k \in (Len(app.calls) + 1)..Len(app'.calls) : app'.calls[k].op = "stop"
        /\ \A c \in 1..Len(container) :
            Cardinality({k \in (Len(app.calls) + 1)..Len(app'.calls) :
                            app'.calls[k].id = container[c].id})
                = IF IsRunnable(inst[container[c].id].cls) THEN 1 ELSE 0
        /\ app'.phase = app.phase /\ app'.ended = app.ended /\ app'.drain = app.drain
        /\ app'.gathered = app.gathered /\ app'.last = app.last

\* Application.stop() was called while the run() that is pending was.
StoppedWhilePending == app.phase # "idle" /\ app.stopped

\* run() is past its setups: every setup() it awaits has returned.
SetupsReturned ==
    app.phase = "setup" => \A k \in app.gathered : Ended(k, "returned")

RunReturned == app.phase = "idle" /\ app.last = "returned"

\* C39 (as stated): stop() calls stop() on every Runnable component and forces
\* nothing; when the run() of a stopped component returns and the dispatcher's
\* tasks complete, a run() that is pending when stop() is called eventually
\* returns.
C39_StoppedRunReturns ==
    /\ [][StopForcesNothing]_vars
    /\ StoppedWhilePending ~> RunReturned

\* C39 (amended): the same, for a pending run() whose setups have returned.
C39_StoppedRunReturnsAfterSetups ==
    /\ [][StopForcesNothing]_vars
    /\ (StoppedWhilePending /\ SetupsReturned) ~> RunReturned

\* A run() that was stopped while it awaited the run() of a component has
\* returned.
C39_Witness ==
    /\ RunReturned /\ app.stopped
    /\ \E k \in app.gathered : StoppedRun(k) /\ Ended(k, "returned")
    /\ \E k \in 1..Len(app.calls) : app.calls[k].op = "setup" /\ Ended(k, "returned")

\* ---- create_with, once
\* C40: once create_with has been called on a processor, whether that call
\* succeeded or failed partway, every further call raises ValueError and adds
\* nothing: the factory it is handed stays empty, no instance is allocated, no
\* constructor runs and the container is as it was.
C40_CreateWithOnlyOnce ==
    [][proc.created =>
            /\ proc'.created /\ proc'.createErr = "ValueError"
            /\ proc'.heap = proc.heap
            /\ inst' = inst /\ toInit' = <<>>
            /\ container' = container /\ ctorLog' = ctorLog]_vars

\* A second create_with was refused after a first one that had added some of
\* the components and then failed.
C40_Witness ==
    /\ proc.created /\ proc.createErr = "ValueError"
    /\ inst # <<>> /\ Len(inst) < Len(decl.heap)
    /\ container = <<>> /\ ctorLog = <<>>

====
